---- MODULE Spec2Model ----
(***************************************************************************)
(* HealthMonitor: the hour-bucket metric store (MetricStorage), the query  *)
(* side written under JsonMetricStorage, the health timeline and the JSON  *)
(* snapshot files, modelled from src/src/metrics/collector.py and          *)
(* src/src/web/json_storage.py.                                            *)
(*                                                                         *)
(* Text is a sequence of atoms (strings); the atoms "," "." "#" " " are    *)
(* the characters the code looks at, every other atom is a run of          *)
(* characters that contains none of them.                                  *)
(***************************************************************************)
EXTENDS Integers, Sequences, FiniteSets, TLC

VARIABLES
    files,      \* path -> content: the lines of an hour bucket, the tokens of a snapshot
    written,    \* history: the MetricValue records handed to store(), in order
    call,       \* the last finished API call: operation, arguments, outcome
    damaged,    \* the bucket paths whose content came from outside the program
    threads,    \* the local state of each thread that runs inside the storage object
    lock,       \* the holders of the storage object's _lock (a threading.Lock)
    rules,      \* AlertManager._rules: the rules in insertion order
    dicts,      \* the dict objects that rules refer to, where references are modelled
    alert_history,  \* AlertManager._alert_history
    utcnow,     \* the clock read by datetime.utcnow(), in seconds
    scheduler,  \* CollectionScheduler: _running, the jobs of its BackgroundScheduler
    input,      \* the argument of the pure functions under check
    output      \* the result of the pure function applied to input

alertVars == <<rules, dicts, alert_history, utcnow, scheduler>>

vars ==
    <<files, written, call, damaged, threads, lock, rules, dicts, alert_history, utcnow, scheduler,
      input, output>>

(***************************************************************************)
(* Bounds of the model.                                                    *)
(***************************************************************************)
MaxStores == 2       \* store() calls in one run
MaxBatch == 2        \* records in one store_batch() call
MaxTimeline == 5     \* records handed to the timeline builder
MaxAlerts == 2       \* evaluate_metric runs while the history is shorter than this
MaxTime == 3         \* the clock stops here
MaxCycles == 1       \* collection cycles in one run

\* the runs of _collection_cycle in a scheduler lifecycle
MaxRuns == 3

(***************************************************************************)
(* datetime: naive UTC instants, to the minute.                            *)
(***************************************************************************)
DT(y, mo, d, h, mi) == [y |-> y, mo |-> mo, d |-> d, h |-> h, mi |-> mi]

IsLeap(y) == (y % 4 = 0 /\ y % 100 # 0) \/ y % 400 = 0

DaysInMonth(y, mo) ==
    IF mo = 2 THEN (IF IsLeap(y) THEN 29 ELSE 28)
    ELSE IF mo \in {4, 6, 9, 11} THEN 30 ELSE 31

\* datetime's constructor check: replace() raises ValueError outside it
ValidDate(dt) ==
    /\ dt.mo \in 1..12
    /\ dt.d \in 1..DaysInMonth(dt.y, dt.mo)
    /\ dt.h \in 0..23
    /\ dt.mi \in 0..59

DtKey(dt) == <<dt.y, dt.mo, dt.d, dt.h, dt.mi>>

RECURSIVE LexLess(_, _)
LexLess(a, b) ==
    IF a = <<>> \/ b = <<>> THEN a = <<>> /\ b # <<>>
    ELSE IF Head(a) # Head(b) THEN Head(a) < Head(b)
    ELSE LexLess(Tail(a), Tail(b))

DtLess(a, b) == LexLess(DtKey(a), DtKey(b))
DtLeq(a, b) == a = b \/ DtLess(a, b)

\* start_time.replace(minute=0, second=0, microsecond=0)
TruncHour(dt) == [dt EXCEPT !.mi = 0]

(***************************************************************************)
(* The instants of the model: around a day boundary inside a month, and    *)
(* around the boundary of a month that is also the boundary of a year.     *)
(***************************************************************************)
RecordInstants ==
    { DT(2023, 12, 30, 23, 30), DT(2023, 12, 31, 0, 30),
      DT(2023, 12, 31, 23, 30), DT(2024, 1, 1, 0, 30) }

QueryInstants ==
    { DT(2023, 12, 30, 23, 0), DT(2023, 12, 30, 23, 30), DT(2023, 12, 31, 0, 45),
      DT(2023, 12, 31, 23, 30), DT(2024, 1, 1, 0, 30), DT(2024, 1, 1, 1, 15) }

\* the instants whose isoformat text the model knows
\* the instants of the collection cycles: one minute apart
CycleInstant(k) == DT(2023, 12, 30, 23, 30 + k)

AllDateTimes == RecordInstants \cup QueryInstants \cup { CycleInstant(k) : k \in 0..(MaxCycles + 1) }

(***************************************************************************)
(* isoformat / fromisoformat                                               *)
(***************************************************************************)
Pad2(n) == IF n < 10 THEN "0" \o ToString(n) ELSE ToString(n)

\* datetime.isoformat() of an instant with second = microsecond = 0
IsoFormat(dt) ==
    << ToString(dt.y) \o "-" \o Pad2(dt.mo) \o "-" \o Pad2(dt.d) \o "T"
       \o Pad2(dt.h) \o ":" \o Pad2(dt.mi) \o ":00" >>

IsIsoText(t) == \E dt \in AllDateTimes : IsoFormat(dt) = t

\* datetime.fromisoformat(t); the caller checks IsIsoText first (else ValueError)
FromIsoFormat(t) == CHOOSE dt \in AllDateTimes : IsoFormat(dt) = t

(***************************************************************************)
(* Text helpers: str.strip, str.startswith, str.split(',', 2), `in`.       *)
(***************************************************************************)
Whitespace == {" ", "\n"}

RECURSIVE LStrip(_)
LStrip(t) == IF t # <<>> /\ Head(t) \in Whitespace THEN LStrip(Tail(t)) ELSE t

RECURSIVE RStrip(_)
RStrip(t) ==
    IF t # <<>> /\ t[Len(t)] \in Whitespace THEN RStrip(SubSeq(t, 1, Len(t) - 1)) ELSE t

Strip(t) == RStrip(LStrip(t))

Contains(t, atom) == \E i \in 1..Len(t) : t[i] = atom

\* the position of the first atom `atom` at or after position from, 0 when none
FirstAt(t, atom, from) ==
    IF \E i \in from..Len(t) : t[i] = atom
    THEN CHOOSE i \in from..Len(t) : t[i] = atom /\ \A j \in from..(i - 1) : t[j] # atom
    ELSE 0

\* line.split(',', 2): at most three parts
Split2(t) ==
    LET i == FirstAt(t, ",", 1)
        j == IF i = 0 THEN 0 ELSE FirstAt(t, ",", i + 1)
    IN  IF i = 0 THEN << t >>
        ELSE IF j = 0 THEN << SubSeq(t, 1, i - 1), SubSeq(t, i + 1, Len(t)) >>
        ELSE << SubSeq(t, 1, i - 1), SubSeq(t, i + 1, j - 1), SubSeq(t, j + 1, Len(t)) >>

(***************************************************************************)
(* Values. A number is its kind and its str(): Python's str() of an int or *)
(* a float reads back to the same number (int(str(n)) = n,                 *)
(* float(repr(x)) = x).                                                    *)
(***************************************************************************)
DigitAtoms == {"0", "1", "5", "10", "42"}

IntVal(a) == [k |-> "int", repr |-> << a >>]
FloatVal(t) == [k |-> "float", repr |-> t]

\* str(value), as the f-string of _metric_to_csv_line formats it
Str(v) == v.repr

\* the texts int() accepts
IsIntLiteral(t) == Len(t) = 1 /\ t[1] \in DigitAtoms

\* the texts float() accepts: digits.digits, an integer, an exponent form, inf
IsFloatLiteral(t) ==
    \/ IsIntLiteral(t)
    \/ Len(t) = 3 /\ t[1] \in DigitAtoms /\ t[2] = "." /\ t[3] \in DigitAtoms
    \/ Len(t) = 1 /\ t[1] \in {"1e-07", "1e+16", "inf"}

\* float(t) of an accepted text: float('10') is 10.0
ParseFloat(t) == IF IsIntLiteral(t) THEN FloatVal(t \o <<".", "0">>) ELSE FloatVal(t)
ParseInt(t) == IntVal(t[1])

\* Python's == on numbers: 1 == 1.0
Normal(v) ==
    IF v.k = "float" /\ Len(v.repr) = 3 /\ v.repr[3] = "0" THEN IntVal(v.repr[1]) ELSE v
PyEq(a, b) == Normal(a) = Normal(b)

(***************************************************************************)
(* class MetricStorage (collector.py 327-399): the CSV hour-bucket writer  *)
(***************************************************************************)
CSV_HEADER == << "#", " ", "metric_name", ",", "timestamp", ",", "value" >>

\* the .log file of (cluster, node, UTC date, UTC hour)
BucketPath(cluster, node, dt) == << cluster, node, dt.y, dt.mo, dt.d, dt.h >>

MetricValue(name, value, ts, node, cluster) ==
    [metric_name |-> name, value |-> value, timestamp |-> ts,
     node_name |-> node, cluster_name |-> cluster]

\* f"{metric.metric_name},{metric.timestamp},{metric.value}"
MetricToCsvLine(metric) ==
    metric.metric_name \o <<",">> \o metric.timestamp \o <<",">> \o Str(metric.value)

None == [none |-> TRUE]

\* _csv_line_to_metric: None for a comment, a short line or a bad number
CsvLineToMetric(rawline, cluster, node) ==
    LET line == Strip(rawline)
        parts == Split2(line)
    IN  IF line = <<>> \/ Head(line) = "#" THEN None
        ELSE IF Len(parts) < 3 THEN None
        ELSE IF Contains(parts[3], ".")
             THEN IF IsFloatLiteral(parts[3])
                  THEN MetricValue(parts[1], ParseFloat(parts[3]), parts[2], node, cluster)
                  ELSE None
             ELSE IF IsIntLiteral(parts[3])
                  THEN MetricValue(parts[1], ParseInt(parts[3]), parts[2], node, cluster)
                  ELSE None

\* MetricStorage.store under the lock: header on a new file, then one line
StoreLines(fs, metric) ==
    LET dt == FromIsoFormat(metric.timestamp)
        path == BucketPath(metric.cluster_name, metric.node_name, dt)
        file_exists == path \in DOMAIN fs
        old == IF file_exists THEN fs[path] ELSE <<>>
        new == (IF file_exists THEN old ELSE << CSV_HEADER >>)
               \o << MetricToCsvLine(metric) >>
    IN  [p \in DOMAIN fs \cup {path} |-> IF p = path THEN new ELSE fs[p]]

\* MetricStorage.store_batch: store() for each metric, in order
RECURSIVE StoreBatchLines(_, _)
StoreBatchLines(fs, metrics) ==
    IF metrics = <<>> THEN fs
    ELSE StoreBatchLines(StoreLines(fs, Head(metrics)), Tail(metrics))

(***************************************************************************)
(* Attribute lookup. The two storage classes of collector.py have no base  *)
(* class; an attribute a class does not define raises AttributeError.      *)
(***************************************************************************)
MetricStorageAttrs ==
    {"CSV_HEADER", "base_dir", "_lock", "_get_file_path", "_metric_to_csv_line",
     "_csv_line_to_metric", "store", "store_batch"}

JsonMetricStorageAttrs ==
    {"METRIC_ID_PING", "DEFAULT_LOG_ROOT", "base_dir", "_lock", "_format_metric_json",
     "_get_file_path", "store_batch", "store", "_get_query_file_path", "query",
     "get_latest", "get_health_timeline", "get_health_summary", "list_clusters",
     "list_nodes"}

StorageClasses == {"MetricStorage", "JsonMetricStorage"}

HasAttr(cls, attr) ==
    IF cls = "MetricStorage" THEN attr \in MetricStorageAttrs
    ELSE attr \in JsonMetricStorageAttrs

(***************************************************************************)
(* JsonMetricStorage.query (collector.py 491-518)                          *)
(***************************************************************************)
Result(exc, out, visited) == [exc |-> exc, out |-> out, visited |-> visited]

\* lines 507-510: the range and name filter on a parsed record; the optional
\* metric_name is {} for None and {name} otherwise
Matches(m, start_time, end_time, metric_name) ==
    LET m_time == FromIsoFormat(m.timestamp)
    IN  /\ DtLeq(start_time, m_time) /\ DtLeq(m_time, end_time)
        /\ (metric_name = {} \/ m.metric_name \in metric_name)

\* lines 503-510: the loop over the lines of one bucket file
RECURSIVE ReadBucket(_, _, _, _, _, _, _, _)
ReadBucket(lines, cls, cluster, node, start_time, end_time, metric_name, acc) ==
    IF lines = <<>> THEN Result("none", acc, <<>>)
    ELSE IF ~HasAttr(cls, "_csv_line_to_metric") THEN Result("AttributeError", <<>>, <<>>)
    ELSE LET m == CsvLineToMetric(Head(lines), cluster, node)
         IN  IF m = None
             THEN ReadBucket(Tail(lines), cls, cluster, node, start_time, end_time,
                             metric_name, acc)
             ELSE IF ~IsIsoText(m.timestamp) THEN Result("ValueError", <<>>, <<>>)
             ELSE ReadBucket(Tail(lines), cls, cluster, node, start_time, end_time,
                             metric_name,
                             IF Matches(m, start_time, end_time, metric_name)
                             THEN Append(acc, m) ELSE acc)

\* lines 515-516: the next hour, by replace(); the caller checks ValidDate
NextHour(current) ==
    IF current.h < 23 THEN [current EXCEPT !.h = @ + 1]
    ELSE [current EXCEPT !.d = @ + 1, !.h = 0]

\* sorted(results, key=lambda x: x['timestamp']): stable, by the string;
\* isoformat strings are fixed-width, so they order as their fields do
TsLess(a, b) == DtLess(FromIsoFormat(a.timestamp), FromIsoFormat(b.timestamp))

RECURSIVE InsertSorted(_, _)
InsertSorted(sorted, m) ==
    IF sorted = <<>> THEN << m >>
    ELSE IF TsLess(m, sorted[Len(sorted)])
         THEN Append(InsertSorted(SubSeq(sorted, 1, Len(sorted) - 1), m), sorted[Len(sorted)])
         ELSE Append(sorted, m)

RECURSIVE SortByTimestamp(_)
SortByTimestamp(results) ==
    IF results = <<>> THEN <<>>
    ELSE InsertSorted(SortByTimestamp(SubSeq(results, 1, Len(results) - 1)),
                      results[Len(results)])

\* lines 498-518: the loop over the hour buckets
RECURSIVE QueryLoop(_, _, _, _, _, _, _, _, _, _)
QueryLoop(fs, cls, cluster, node, start_time, end_time, metric_name, current, results, visited) ==
    IF ~DtLeq(current, end_time)
    THEN Result("none", SortByTimestamp(results), visited)
    ELSE LET file_path == BucketPath(cluster, node, current)
             seen == Append(visited, current)
             r == IF file_path \in DOMAIN fs
                  THEN ReadBucket(fs[file_path], cls, cluster, node, start_time,
                                  end_time, metric_name, results)
                  ELSE Result("none", results, <<>>)
         IN  IF r.exc # "none" THEN Result(r.exc, <<>>, seen)
             ELSE IF ~ValidDate(NextHour(current)) THEN Result("ValueError", <<>>, seen)
             ELSE QueryLoop(fs, cls, cluster, node, start_time, end_time, metric_name,
                            NextHour(current), r.out, seen)

Query(fs, cls, cluster, node, start_time, end_time, metric_name) ==
    IF ~HasAttr(cls, "query") THEN Result("AttributeError", <<>>, <<>>)
    ELSE QueryLoop(fs, cls, cluster, node, start_time, end_time, metric_name,
                   TruncHour(start_time), <<>>, <<>>)

(***************************************************************************)
(* JsonMetricStorage.get_latest (collector.py 520-534)                     *)
(***************************************************************************)
\* lines 530-531: the previous hour, by replace(); the caller checks ValidDate
PrevHour(start_time) ==
    IF start_time.h > 0 THEN [start_time EXCEPT !.h = @ - 1]
    ELSE [start_time EXCEPT !.d = @ - 1, !.h = 23]

GetLatest(fs, cls, cluster, node, now, metric_name) ==
    IF ~HasAttr(cls, "get_latest") THEN Result("AttributeError", <<>>, <<>>)
    ELSE LET start_time == TruncHour(now)
             metrics == Query(fs, cls, cluster, node, start_time, now, metric_name)
         IN  IF metrics.exc # "none" \/ metrics.out # <<>> THEN metrics
             ELSE IF ~ValidDate(PrevHour(start_time))
                  THEN Result("ValueError", <<>>, metrics.visited)
                  ELSE LET prev == Query(fs, cls, cluster, node, PrevHour(start_time),
                                         start_time, metric_name)
                       IN  Result(prev.exc, prev.out, metrics.visited \o prev.visited)

(***************************************************************************)
(* The store and its readers, called one after the other.                  *)
(***************************************************************************)
Names == { <<"cpu">>, <<"clickhouse_status">> }

StoredMetrics ==
    { MetricValue(n, IntVal("1"), IsoFormat(t), "n1", "c1") : n \in Names, t \in RecordInstants }

\* the stored (cluster, node), and a cluster and node nothing was stored for
QueryTargets == { <<"c1", "n1">>, <<"c2", "n2">> }

OptNames == { {}, { <<"cpu">> } }

\* what a damaged bucket holds: a short line, a bad number, a bad timestamp
CorruptLines ==
    { << "garbage" >>,
      <<"cpu">> \o <<",">> \o IsoFormat(DT(2023, 12, 31, 0, 30)) \o <<",">> \o <<"abc">>,
      << "cpu", ",", "not-a-time", ",", "1" >> }

DamagedPath == BucketPath("c1", "n1", DT(2023, 12, 31, 0, 0))

EmptyFiles == [p \in {} |-> <<>>]

NoCall == [op |-> "none"]

NoThreads == [t \in {} |-> <<>>]

\* scheduler.py 36-38: a scheduler that was never started; cycles counts the
\* runs of _collection_cycle
NoScheduler == [running |-> FALSE, jobs |-> {}, cycles |-> 0]

\* no alert manager in use
AlertsIdle ==
    /\ rules = <<>>
    /\ dicts = <<>>
    /\ scheduler = NoScheduler
    /\ alert_history = <<>>
    /\ utcnow = 0

\* the result slot of a pure function: empty, or holding the value it returned
Pending == [done |-> FALSE]
Applied(value) == [done |-> TRUE, value |-> value]

Init ==
    /\ files = EmptyFiles
    /\ written = <<>>
    /\ call = NoCall
    /\ damaged = {}
    /\ threads = NoThreads
    /\ lock = {}
    /\ AlertsIdle
    /\ input = <<>>
    /\ output = Pending

\* the caller is sequential: a call starts when the previous one has returned
Store(metric) ==
    /\ call = NoCall
    /\ Len(written) < MaxStores
    /\ files' = StoreLines(files, metric)
    /\ written' = Append(written, metric)
    /\ call' = [op |-> "store", metrics |-> << metric >>]
    /\ UNCHANGED <<damaged, threads, lock, input, output, alertVars>>

StoreBatch(metrics) ==
    /\ call = NoCall
    /\ Len(written) + Len(metrics) <= MaxStores
    /\ files' = StoreBatchLines(files, metrics)
    /\ written' = written \o metrics
    /\ call' = [op |-> "store_batch", metrics |-> metrics]
    /\ UNCHANGED <<damaged, threads, lock, input, output, alertVars>>

\* the environment: a bucket file with content the store did not write
DamageBucket(line) ==
    /\ call = NoCall
    /\ damaged = {}
    /\ files' = [p \in DOMAIN files \cup {DamagedPath} |->
                    IF p = DamagedPath
                    THEN (IF p \in DOMAIN files THEN files[p] ELSE <<>>) \o << line >>
                    ELSE files[p]]
    /\ damaged' = {DamagedPath}
    /\ UNCHANGED <<written, call, threads, lock, input, output, alertVars>>

QueryCall(cls, target, start_time, end_time, metric_name) ==
    /\ call = NoCall
    /\ call' = [op |-> "query", cls |-> cls, cluster |-> target[1], node |-> target[2],
                start_time |-> start_time, end_time |-> end_time,
                metric_name |-> metric_name,
                res |-> Query(files, cls, target[1], target[2], start_time, end_time,
                              metric_name)]
    /\ UNCHANGED <<files, written, damaged, threads, lock, input, output, alertVars>>

GetLatestCall(cls, target, now, metric_name) ==
    /\ call = NoCall
    /\ call' = [op |-> "get_latest", cls |-> cls, cluster |-> target[1], node |-> target[2],
                now |-> now, metric_name |-> metric_name,
                res |-> GetLatest(files, cls, target[1], target[2], now, metric_name)]
    /\ UNCHANGED <<files, written, damaged, threads, lock, input, output, alertVars>>

\* the caller takes the outcome of the call and goes on
Return ==
    /\ call # NoCall
    /\ call' = NoCall
    /\ UNCHANGED <<files, written, damaged, threads, lock, input, output, alertVars>>

Batches == UNION { [1..n -> StoredMetrics] : n \in 1..MaxBatch }

Next ==
    \/ \E metric \in StoredMetrics : Store(metric)
    \/ \E metrics \in Batches : StoreBatch(metrics)
    \/ \E line \in CorruptLines : DamageBucket(line)
    \/ \E cls \in StorageClasses, target \in QueryTargets, metric_name \in OptNames,
          start_time \in QueryInstants, end_time \in QueryInstants :
          QueryCall(cls, target, start_time, end_time, metric_name)
    \/ \E cls \in StorageClasses, target \in QueryTargets, metric_name \in OptNames,
          now \in QueryInstants :
          GetLatestCall(cls, target, now, metric_name)
    \/ Return

Spec == Init /\ [][Next]_vars

(***************************************************************************)
(* JsonMetricStorage.get_health_timeline (collector.py 536-568)            *)
(***************************************************************************)
STATUS_HEALTHY == "jiankang"     \* the status text of value 1
STATUS_OFFLINE == "lixian"       \* the status text of any other value
CHANGE_RECOVERED == "huifu"      \* the change type of a change to value 1
CHANGE_FAILED == "guzhang"       \* the change type of any other change

One == IntVal("1")

NoChange == "None"

\* lines 555-566: the loop body, prev_status being None ({}) or {status}
TimelineEntry(m, prev_status) ==
    LET status == m.value
        changed == prev_status # {} /\ \A p \in prev_status : ~PyEq(status, p)
    IN  [timestamp |-> m.timestamp,
         status |-> status,
         status_text |-> IF PyEq(status, One) THEN STATUS_HEALTHY ELSE STATUS_OFFLINE,
         changed |-> changed,
         change_type |-> IF ~changed THEN NoChange
                         ELSE IF PyEq(status, One) THEN CHANGE_RECOVERED
                         ELSE CHANGE_FAILED]

\* the loop without line 566: prev_status stays at the first status
RECURSIVE TimelineLoopStalePrev(_, _, _)
TimelineLoopStalePrev(metrics, prev_status, timeline) ==
    IF metrics = <<>> THEN timeline
    ELSE TimelineLoopStalePrev(Tail(metrics),
                               IF prev_status = {} THEN {Head(metrics).value} ELSE prev_status,
                               Append(timeline, TimelineEntry(Head(metrics), prev_status)))

\* lines 552-568: one entry per record, in order
RECURSIVE TimelineLoop(_, _, _)
TimelineLoop(metrics, prev_status, timeline) ==
    IF metrics = <<>> THEN timeline
    ELSE TimelineLoop(Tail(metrics), {Head(metrics).value},
                      Append(timeline, TimelineEntry(Head(metrics), prev_status)))

BuildTimeline(metrics) == TimelineLoop(metrics, {}, <<>>)

\* line 550, then the loop
GetHealthTimeline(fs, cls, cluster, node, start_time, end_time) ==
    IF ~HasAttr(cls, "get_health_timeline") THEN Result("AttributeError", <<>>, <<>>)
    ELSE LET metrics == Query(fs, cls, cluster, node, start_time, end_time,
                              { <<"clickhouse_status">> })
         IN  IF metrics.exc # "none" THEN metrics
             ELSE Result("none", BuildTimeline(metrics.out), metrics.visited)

(***************************************************************************)
(* JsonMetricStorage.get_health_summary (collector.py 570-609).  A         *)
(* percentage is kept in hundredths: 6000 is 60.0, 6667 is 66.67.          *)
(***************************************************************************)
\* a quotient cut off instead of rounded
PercentTruncated(healthy_count, total) == (healthy_count * 10000) \div total

\* line 604: round(healthy_count / len(timeline) * 100, 2)
Percent(healthy_count, total) == (2 * healthy_count * 10000 + total) \div (2 * total)

\* line 592: sum(1 for t in timeline if t['status'] == 1)
HealthyCount(timeline) == Cardinality({ i \in DOMAIN timeline : PyEq(timeline[i].status, One) })

\* line 596: [t for t in timeline if t['changed']]
RECURSIVE StatusChanges(_)
StatusChanges(timeline) ==
    IF timeline = <<>> THEN <<>>
    ELSE (IF Head(timeline).changed THEN << Head(timeline) >> ELSE <<>>)
         \o StatusChanges(Tail(timeline))

NoStatus == "None"

\* lines 580-609
HealthSummary(timeline, cluster, node) ==
    IF timeline = <<>>
    THEN [node_name |-> node, cluster_name |-> cluster, total_checks |-> 0,
          healthy_count |-> 0, unhealthy_count |-> 0, availability_percent |-> 0,
          status_changes |-> <<>>, current_status |-> NoStatus]
    ELSE [node_name |-> node, cluster_name |-> cluster,
          total_checks |-> Len(timeline),
          healthy_count |-> HealthyCount(timeline),
          unhealthy_count |-> Len(timeline) - HealthyCount(timeline),
          availability_percent |-> Percent(HealthyCount(timeline), Len(timeline)),
          status_changes |-> StatusChanges(timeline),
          current_status |-> timeline[Len(timeline)].status_text,
          first_check |-> timeline[1].timestamp,
          last_check |-> timeline[Len(timeline)].timestamp]

\* line 578, then the summary
GetHealthSummary(fs, cls, cluster, node, start_time, end_time) ==
    IF ~HasAttr(cls, "get_health_summary") THEN Result("AttributeError", <<>>, <<>>)
    ELSE LET timeline == GetHealthTimeline(fs, cls, cluster, node, start_time, end_time)
         IN  IF timeline.exc # "none" THEN timeline
             ELSE Result("none", HealthSummary(timeline.out, cluster, node), timeline.visited)

(***************************************************************************)
(* The pure functions, applied to inputs drawn from bounded sets.          *)
(***************************************************************************)

\* CSV round trip of one record: _metric_to_csv_line, then _csv_line_to_metric
RoundTripNames == { <<"cpu">>, <<"clickhouse_status">>, <<"a", ",", "b">>, <<" ", "cpu">> }

RoundTripValues ==
    { IntVal("0"), IntVal("1"), IntVal("10"),
      FloatVal(<<"42", ".", "5">>), FloatVal(<<"1", ".", "0">>),
      FloatVal(<<"1e-07">>), FloatVal(<<"1e+16">>), FloatVal(<<"inf">>) }

RoundTripMetrics ==
    { MetricValue(n, v, IsoFormat(t), "n1", "c1") :
        n \in RoundTripNames, v \in RoundTripValues, t \in RecordInstants }

InitRoundTrip ==
    /\ files = EmptyFiles
    /\ written = <<>>
    /\ call = NoCall
    /\ damaged = {}
    /\ threads = NoThreads
    /\ lock = {}
    /\ AlertsIdle
    /\ input \in RoundTripMetrics
    /\ output = Pending

ApplyRoundTrip ==
    /\ output = Pending
    /\ output' = Applied(CsvLineToMetric(MetricToCsvLine(input), input.cluster_name,
                                         input.node_name))
    /\ UNCHANGED <<files, written, call, damaged, threads, lock, input, alertVars>>

SpecRoundTrip == InitRoundTrip /\ [][ApplyRoundTrip]_vars

\* the timeline of a sequence of clickhouse_status records
TimelineValues == { IntVal("0"), IntVal("1"), FloatVal(<<"1", ".", "0">>) }

TimelineInstants ==
    << DT(2023, 12, 30, 23, 0), DT(2023, 12, 30, 23, 30), DT(2023, 12, 31, 0, 30),
       DT(2023, 12, 31, 0, 45), DT(2023, 12, 31, 23, 30), DT(2024, 1, 1, 0, 30),
       DT(2024, 1, 1, 1, 15) >>

TimelineInputs ==
    UNION { { [i \in 1..n |->
                 MetricValue(<<"clickhouse_status">>, vs[i], IsoFormat(TimelineInstants[i]),
                             "n1", "c1")] : vs \in [1..n -> TimelineValues] } :
            n \in 0..MaxTimeline }

InitTimeline ==
    /\ files = EmptyFiles
    /\ written = <<>>
    /\ call = NoCall
    /\ damaged = {}
    /\ threads = NoThreads
    /\ lock = {}
    /\ AlertsIdle
    /\ input \in TimelineInputs
    /\ output = Pending

ApplyTimeline ==
    /\ output = Pending
    /\ output' = Applied(BuildTimeline(input))
    /\ UNCHANGED <<files, written, call, damaged, threads, lock, input, alertVars>>

SpecTimeline == InitTimeline /\ [][ApplyTimeline]_vars

\* the summary of the timeline of a sequence of clickhouse_status records
ApplySummary ==
    /\ output = Pending
    /\ output' = Applied(HealthSummary(BuildTimeline(input), "c1", "n1"))
    /\ UNCHANGED <<files, written, call, damaged, threads, lock, input, alertVars>>

SpecSummary == InitTimeline /\ [][ApplySummary]_vars

(***************************************************************************)
(* MetricStorage.store (collector.py 382-394) step by step, called from    *)
(* two threads: the interval job of the scheduler and trigger_collection   *)
(* (scheduler.py 49-55, 77-79), both through store_batch.                  *)
(***************************************************************************)
Writers == {"timer", "manual"}

ConcInstants == { DT(2023, 12, 30, 23, 30), DT(2023, 12, 31, 0, 30) }

\* two records of one hour bucket and one record of the next bucket
ConcMetrics ==
    { MetricValue(<<"cpu">>, IntVal("1"), IsoFormat(t), "n1", "c1") : t \in ConcInstants }
    \cup { MetricValue(<<"clickhouse_status">>, IntVal("1"),
                       IsoFormat(DT(2023, 12, 30, 23, 30)), "n1", "c1") }

ConcBatches == UNION { [1..n -> ConcMetrics] : n \in 1..MaxBatch }

Writer(todo) ==
    [pc |-> "idle", todo |-> todo, stored |-> <<>>, path |-> <<>>,
     file_exists |-> FALSE, buffer |-> <<>>]

InitConc ==
    /\ files = EmptyFiles
    /\ written = <<>>
    /\ call = NoCall
    /\ damaged = {}
    /\ threads \in [Writers -> { Writer(b) : b \in ConcBatches }]
    /\ lock = {}
    /\ AlertsIdle
    /\ input = <<>>
    /\ output = Pending

\* a lock that never blocks
CanAcquireAlways(t) == TRUE

\* threading.Lock: free when nobody holds it
CanAcquire(t) == lock = {}

\* lines 384-385: the bucket path of the next metric of the batch
StoreBegin(t) ==
    /\ threads[t].pc = "idle"
    /\ threads[t].todo # <<>>
    /\ threads' = [threads EXCEPT ![t].pc = "locking",
                      ![t].path = BucketPath(Head(threads[t].todo).cluster_name,
                                             Head(threads[t].todo).node_name,
                                             FromIsoFormat(Head(threads[t].todo).timestamp))]
    /\ UNCHANGED <<files, written, call, damaged, lock, input, output, alertVars>>

\* line 387: with self._lock
StoreAcquire(t) ==
    /\ threads[t].pc = "locking"
    /\ CanAcquire(t)
    /\ lock' = lock \cup {t}
    /\ threads' = [threads EXCEPT ![t].pc = "check"]
    /\ UNCHANGED <<files, written, call, damaged, input, output, alertVars>>

\* line 389: file_exists = os.path.exists(file_path)
StoreCheck(t) ==
    /\ threads[t].pc = "check"
    /\ threads' = [threads EXCEPT ![t].pc = "open",
                                  ![t].file_exists = threads[t].path \in DOMAIN files]
    /\ UNCHANGED <<files, written, call, damaged, lock, input, output, alertVars>>

\* line 391: open(file_path, 'a') creates the file when it is missing
StoreOpen(t) ==
    /\ threads[t].pc = "open"
    /\ files' = [p \in DOMAIN files \cup {threads[t].path} |->
                    IF p \in DOMAIN files THEN files[p] ELSE <<>>]
    /\ threads' = [threads EXCEPT ![t].pc = "write", ![t].buffer = <<>>]
    /\ UNCHANGED <<written, call, damaged, lock, input, output, alertVars>>

\* lines 392-394: the writes go to the buffer of the file object
StoreWrite(t) ==
    /\ threads[t].pc = "write"
    /\ threads' = [threads EXCEPT ![t].pc = "close",
                      ![t].buffer = (IF threads[t].file_exists THEN <<>> ELSE << CSV_HEADER >>)
                                    \o << MetricToCsvLine(Head(threads[t].todo)) >>]
    /\ UNCHANGED <<files, written, call, damaged, lock, input, output, alertVars>>

\* end of the inner with: close() flushes the buffer, appended in one write
StoreClose(t) ==
    /\ threads[t].pc = "close"
    /\ files' = [files EXCEPT ![threads[t].path] = @ \o threads[t].buffer]
    /\ threads' = [threads EXCEPT ![t].pc = "unlock", ![t].buffer = <<>>]
    /\ UNCHANGED <<written, call, damaged, lock, input, output, alertVars>>

\* end of the outer with: the lock is released and store() returns
StoreRelease(t) ==
    /\ threads[t].pc = "unlock"
    /\ lock' = lock \ {t}
    /\ written' = Append(written, Head(threads[t].todo))
    /\ threads' = [threads EXCEPT ![t].pc = "idle",
                                  ![t].todo = Tail(threads[t].todo),
                                  ![t].stored = Append(threads[t].stored, Head(threads[t].todo))]
    /\ UNCHANGED <<files, call, damaged, input, output, alertVars>>

NextConc ==
    \E t \in Writers :
        \/ StoreBegin(t)
        \/ StoreAcquire(t)
        \/ StoreCheck(t)
        \/ StoreOpen(t)
        \/ StoreWrite(t)
        \/ StoreClose(t)
        \/ StoreRelease(t)

SpecConc == InitConc /\ [][NextConc]_vars

(***************************************************************************)
(* JsonMetricStorage.store_batch (collector.py 452-479) step by step, and  *)
(* JsonMetricReader._read_json_file (json_storage.py 159-166), which takes *)
(* no lock.  A snapshot file holds the JSON text as a sequence of tokens.  *)
(***************************************************************************)
METRIC_ID_PING == "ch_ping"

JsonOpen == [json |-> "["]
JsonClose == [json |-> "]"]

\* lines 422-430; an isoformat text of the model is its first 19 characters
FormatMetricJson(metric, metric_id) ==
    [json |-> "object",
     clustername |-> metric.cluster_name,
     machinename |-> metric.node_name,
     metricname |-> IF metric_id = {} THEN METRIC_ID_PING ELSE CHOOSE i \in metric_id : TRUE,
     metricvalue |-> metric.value,
     logtime |-> SubSeq(metric.timestamp, 1, 1)]

\* json.dump of a list of objects
JsonDump(data) == << JsonOpen >> \o data \o << JsonClose >>

\* a byte sequence that is not UTF-8 (a multi-byte character cut in two)
Undecodable == [json |-> "undecodable"]

\* json.load of a file opened with encoding='utf-8': f.read() decodes the
\* whole text first, then the text has to be one complete array
JsonLoad(text) ==
    IF \E i \in 1..Len(text) : text[i] = Undecodable
    THEN [exc |-> "UnicodeDecodeError", out |-> <<>>]
    ELSE IF /\ Len(text) >= 2
       /\ text[1] = JsonOpen
       /\ text[Len(text)] = JsonClose
       /\ \A i \in 2..(Len(text) - 1) : text[i].json = "object"
    THEN [exc |-> "none", out |-> SubSeq(text, 2, Len(text) - 1)]
    ELSE [exc |-> "JSONDecodeError", out |-> <<>>]

\* lines 432-450: one file for a cluster and a minute:
\* the day directory, then the file name with its %Y%m%d%H%M stamp
SnapshotPath(cluster, now) ==
    << cluster, now.y, now.mo, now.d, "ServceLogs", now.y, now.mo, now.d, now.h, now.mi >>

\* json_storage.py 159-166: IOError and JSONDecodeError become []
ReadJsonFile(fs, path) ==
    IF path \notin DOMAIN fs THEN <<>>
    ELSE IF JsonLoad(fs[path]).exc # "none" THEN <<>>
    ELSE JsonLoad(fs[path]).out

\* lines 164-166: except (IOError, json.JSONDecodeError); any other exception
\* of open/json.load leaves _read_json_file
ReadJsonFileExc(fs, path) ==
    IF path \notin DOMAIN fs \/ JsonLoad(fs[path]).exc = "JSONDecodeError" THEN "none"
    ELSE JsonLoad(fs[path]).exc

SnapMinutes == { DT(2023, 12, 30, 23, 30), DT(2023, 12, 30, 23, 31) }

SnapMetrics ==
    { MetricValue(<<"clickhouse_status">>, IntVal("1"), IsoFormat(DT(2023, 12, 30, 23, 30)),
                  "n1", "c1"),
      MetricValue(<<"clickhouse_status">>, IntVal("0"), IsoFormat(DT(2023, 12, 30, 23, 30)),
                  "n2", "c1") }

SnapBatches == UNION { [1..n -> SnapMetrics] : n \in 1..MaxBatch }

SnapWriter(clock) ==
    [pc |-> "idle", clock |-> clock, path |-> <<>>, json_data |-> <<>>,
     buffer |-> <<>>, before |-> <<>>, returned |-> <<>>]

Reader == "reader"

NoRead == [pc |-> "idle", path |-> <<>>, result |-> <<>>, allowed |-> {}]

InitRW ==
    /\ files = EmptyFiles
    /\ written = <<>>
    /\ call = NoCall
    /\ damaged = {}
    /\ threads = [t \in Writers \cup {Reader} |->
                     IF t = Reader THEN NoRead
                     ELSE SnapWriter(DT(2023, 12, 30, 23, 30))]
    /\ lock = {}
    /\ AlertsIdle
    /\ input = <<>>
    /\ output = Pending

\* lines 465-472: the file of the current minute and the JSON data
SnapBegin(t, metrics, now) ==
    /\ threads[t].pc = "idle"
    /\ Len(written) + Len(metrics) <= MaxStores
    /\ \A w \in Writers : DtLeq(threads[w].clock, now)
    /\ threads' = [threads EXCEPT ![t].pc = "locking",
                      ![t].clock = now,
                      ![t].path = SnapshotPath(metrics[1].cluster_name, now),
                      ![t].json_data = [i \in DOMAIN metrics |-> FormatMetricJson(metrics[i], {})]]
    /\ written' = written \o metrics
    /\ UNCHANGED <<files, call, damaged, lock, input, output, alertVars>>

\* line 474: with self._lock
SnapAcquire(t) ==
    /\ threads[t].pc = "locking"
    /\ CanAcquire(t)
    /\ lock' = lock \cup {t}
    /\ threads' = [threads EXCEPT ![t].pc = "open"]
    /\ UNCHANGED <<files, written, call, damaged, input, output, alertVars>>

\* line 476: open(json_file, 'w') creates the file or cuts it to nothing
SnapOpen(t) ==
    /\ threads[t].pc = "open"
    /\ files' = [p \in DOMAIN files \cup {threads[t].path} |->
                    IF p = threads[t].path THEN <<>> ELSE files[p]]
    /\ threads' = [threads EXCEPT ![t].pc = "dump", ![t].buffer = <<>>,
                      ![t].before = ReadJsonFile(files, threads[t].path)]
    /\ UNCHANGED <<written, call, damaged, lock, input, output, alertVars>>

\* line 477: json.dump writes to the buffer of the file object
SnapDump(t) ==
    /\ threads[t].pc = "dump"
    /\ threads' = [threads EXCEPT ![t].pc = "close",
                                  ![t].buffer = JsonDump(threads[t].json_data)]
    /\ UNCHANGED <<files, written, call, damaged, lock, input, output, alertVars>>

\* end of the inner with: close() flushes the buffer
SnapClose(t) ==
    /\ threads[t].pc = "close"
    /\ files' = [files EXCEPT ![threads[t].path] = @ \o threads[t].buffer]
    /\ threads' = [threads EXCEPT ![t].pc = "unlock", ![t].buffer = <<>>]
    /\ UNCHANGED <<written, call, damaged, lock, input, output, alertVars>>

\* end of the outer with; line 479 returns the path of the file
SnapRelease(t) ==
    /\ threads[t].pc = "unlock"
    /\ lock' = lock \ {t}
    /\ threads' = [threads EXCEPT ![t].pc = "idle",
                      ![t].returned = Append(@, [path |-> threads[t].path,
                                                 json_data |-> threads[t].json_data])]
    /\ UNCHANGED <<files, written, call, damaged, input, output, alertVars>>

\* the writer that is between open() and close() on the file, if any
WritingTo(path) ==
    { w \in Writers : threads[w].pc \in {"dump", "close"} /\ threads[w].path = path }

\* the records of the file before and after the write in progress
StatesAround(path) ==
    IF WritingTo(path) = {} THEN { ReadJsonFile(files, path) }
    ELSE UNION { { threads[w].before, threads[w].json_data } : w \in WritingTo(path) }

\* _read_json_file on a file that glob has found
ReaderRead(path) ==
    /\ path \in DOMAIN files
    /\ threads' = [threads EXCEPT ![Reader] =
                      [pc |-> "done", path |-> path,
                       result |-> ReadJsonFile(files, path),
                       allowed |-> StatesAround(path)]]
    /\ UNCHANGED <<files, written, call, damaged, lock, input, output, alertVars>>

NextRW ==
    \/ \E t \in Writers :
          \/ \E metrics \in SnapBatches, now \in SnapMinutes : SnapBegin(t, metrics, now)
          \/ SnapAcquire(t)
          \/ SnapOpen(t)
          \/ SnapDump(t)
          \/ SnapClose(t)
          \/ SnapRelease(t)
    \/ \E path \in DOMAIN files : ReaderRead(path)

SpecRW == InitRW /\ [][NextRW]_vars

(***************************************************************************)
(* AlertRule and AlertManager (src/src/alerts/manager.py 156-293).  Metric *)
(* values and thresholds are integers, times are seconds on one clock.     *)
(***************************************************************************)
\* lines 172-179: the keys of the operators dict
Operators == {">", "<", ">=", "<=", "==", "!="}

OpFunc(op, x, y) ==
    CASE op = ">" -> x > y
      [] op = "<" -> x < y
      [] op = ">=" -> x >= y
      [] op = "<=" -> x =< y
      [] op = "==" -> x = y
      [] op = "!=" -> x # y

\* threshold and value swapped
EvaluateSwapped(rule, metric_value) ==
    IF rule.operator \notin Operators THEN FALSE
    ELSE OpFunc(rule.operator, rule.threshold, metric_value)

\* an operator that is not in the dict counts as satisfied
EvaluateUnknownHolds(rule, metric_value) ==
    IF rule.operator \notin Operators THEN TRUE
    ELSE OpFunc(rule.operator, metric_value, rule.threshold)

\* lines 170-183: AlertRule.evaluate
Evaluate(rule, metric_value) ==
    IF rule.operator \notin Operators THEN FALSE
    ELSE OpFunc(rule.operator, metric_value, rule.threshold)

\* the characters of a name: a name without '/' is one atom
NameAtoms ==
    [name \in {"a/b", "b/c"} |-> IF name = "a/b" THEN << "a", "/", "b" >> ELSE << "b", "/", "c" >>]

Text(name) == IF name \in DOMAIN NameAtoms THEN NameAtoms[name] ELSE << name >>

\* line 255: f"{cluster_name}/{node_name}"
NodeKey(cluster, node) == Text(cluster) \o << "/" >> \o Text(node)

\* should_trigger without the cooldown
ShouldTriggerNoCooldown(rule, node_key, t) == rule.enabled

\* lines 185-195: AlertRule.should_trigger at clock time t
ShouldTrigger(rule, node_key, t) ==
    IF ~rule.enabled THEN FALSE
    ELSE IF node_key \notin DOMAIN rule.last_triggered THEN TRUE
    ELSE t - rule.last_triggered[node_key] >= rule.cooldown_seconds

\* a mark that restarts the cooldown of every node the rule has fired for
MarkTriggeredEveryKey(rule, node_key, t) ==
    [rule EXCEPT !.last_triggered = [k \in DOMAIN rule.last_triggered \cup {node_key} |-> t]]

\* lines 197-199: AlertRule.mark_triggered at clock time t
MarkTriggered(rule, node_key, t) ==
    [rule EXCEPT !.last_triggered =
        [k \in DOMAIN rule.last_triggered \cup {node_key} |->
            IF k = node_key THEN t ELSE rule.last_triggered[k]]]

\* lines 268-280
AlertEvent(rule, metric_name, metric_value, node, cluster, t) ==
    [alert_id |-> << rule.name, NodeKey(cluster, node), t >>,
     rule_name |-> rule.name,
     metric_name |-> metric_name,
     node_name |-> node,
     cluster_name |-> cluster,
     current_value |-> metric_value,
     threshold |-> rule.threshold,
     operator |-> rule.operator,
     severity |-> rule.severity,
     timestamp |-> t]

\* what action.execute(alert) can do: return True, return False, raise
Outcomes == {"True", "False", "raises"}

\* an action loop that stops at the first action that raises
RECURSIVE ExecuteUntilRaise(_, _, _)
ExecuteUntilRaise(actions, rule_name, outcome) ==
    IF actions = <<>> THEN <<>>
    ELSE << [rule |-> rule_name, action |-> Head(actions), outcome |-> outcome[Head(actions)]] >>
         \o (IF outcome[Head(actions)] = "raises" THEN <<>>
             ELSE ExecuteUntilRaise(Tail(actions), rule_name, outcome))

\* lines 283-287: every action is executed, an exception is logged
RECURSIVE ExecuteActions(_, _, _)
ExecuteActions(actions, rule_name, outcome) ==
    IF actions = <<>> THEN <<>>
    ELSE << [rule |-> rule_name, action |-> Head(actions), outcome |-> outcome[Head(actions)]] >>
         \o ExecuteActions(Tail(actions), rule_name, outcome)

\* lines 257-291: the loop over the rules; events are stamped at t, rules marked at t_mark
RECURSIVE EvaluateRules(_, _, _, _, _, _, _, _, _)
EvaluateRules(rs, i, metric_name, metric_value, node, cluster, t, t_mark, outcome) ==
    IF i > Len(rs) THEN [rules |-> rs, alerts |-> <<>>, executed |-> <<>>]
    ELSE LET rule == rs[i]
             node_key == NodeKey(cluster, node)
         IN  IF \/ rule.metric # metric_name
                \/ ~Evaluate(rule, metric_value)
                \/ ~ShouldTrigger(rule, node_key, t)
             THEN EvaluateRules(rs, i + 1, metric_name, metric_value, node, cluster,
                                t, t_mark, outcome)
             ELSE LET rest == EvaluateRules([rs EXCEPT ![i] = MarkTriggered(rule, node_key, t_mark)],
                                            i + 1, metric_name, metric_value, node, cluster,
                                            t, t_mark, outcome)
                  IN  [rules |-> rest.rules,
                       alerts |-> << AlertEvent(rule, metric_name, metric_value, node, cluster, t) >>
                                  \o rest.alerts,
                       executed |-> ExecuteActions(rule.actions, rule.name, outcome)
                                    \o rest.executed]

\* the rule sets of the model: r1 varies, r2 is a second rule on the same metric
\* with the default cooldown (line 166)
RuleOperators == Operators \cup {"=>"}

Cooldowns == {0, 2}

Thresholds == {80}

MetricValues == {70, 80, 90}

MetricNames == {"cpu_percent", "memory_percent"}

AlertNodes == {"n1", "n2"}

ActionNames == {"a1", "a2", "a3"}

\* in one call no action fails, or the first action of r1 or the action of r2 does
ActionOutcomes ==
    { o \in [ActionNames -> Outcomes] :
        /\ o["a2"] = "True"
        /\ o["a1"] = "True" \/ o["a3"] = "True"
        /\ o["a3"] # "False" }

AlertRule(name, metric, operator, threshold, actions, enabled, cooldown_seconds) ==
    [name |-> name, metric |-> metric, operator |-> operator, threshold |-> threshold,
     severity |-> "warning", actions |-> actions, enabled |-> enabled,
     cooldown_seconds |-> cooldown_seconds,
     last_triggered |-> [k \in {} |-> 0]]

RuleSets ==
    { << AlertRule("r1", "cpu_percent", op, th, << "a1", "a2" >>, en, cd),
         AlertRule("r2", "cpu_percent", ">=", th, << "a3" >>, TRUE, 300) >> :
        op \in RuleOperators, th \in Thresholds, en \in BOOLEAN, cd \in Cooldowns }

InitAlerts ==
    /\ files = EmptyFiles
    /\ written = <<>>
    /\ call = NoCall
    /\ damaged = {}
    /\ threads = NoThreads
    /\ lock = {}
    /\ rules \in RuleSets
    /\ dicts = <<>>
    /\ scheduler = NoScheduler
    /\ alert_history = <<>>
    /\ utcnow = 0
    /\ input = <<>>
    /\ output = Pending

\* AlertManager.evaluate_metric; the clock may move by delay while the actions run
EvaluateMetric(metric_name, metric_value, node, cluster, delay, outcome) ==
    /\ call = NoCall
    /\ Len(alert_history) < MaxAlerts
    /\ utcnow + delay <= MaxTime
    /\ LET r == EvaluateRules(rules, 1, metric_name, metric_value, node, cluster,
                              utcnow, utcnow + delay, outcome)
       IN  /\ rules' = r.rules
           /\ alert_history' = alert_history \o r.alerts
           /\ utcnow' = utcnow + delay
           /\ call' = [op |-> "evaluate_metric", metric_name |-> metric_name,
                       metric_value |-> metric_value, node_name |-> node,
                       cluster_name |-> cluster, at |-> utcnow, rules_before |-> rules,
                       history_before |-> alert_history,
                       exc |-> "none", alerts |-> r.alerts, executed |-> r.executed]
    /\ UNCHANGED <<files, written, damaged, threads, lock, dicts, scheduler, input, output>>

\* evaluate_metric returns to its caller
ReturnAlerts ==
    /\ call # NoCall
    /\ call' = NoCall
    /\ UNCHANGED <<files, written, damaged, threads, lock, alertVars, input, output>>

\* time passes between two calls
Tick ==
    /\ call = NoCall
    /\ utcnow < MaxTime
    /\ utcnow' = utcnow + 1
    /\ UNCHANGED <<files, written, call, damaged, threads, lock, rules, dicts, scheduler, alert_history,
                   input, output>>

NextAlerts ==
    \/ \E metric_name \in MetricNames, metric_value \in MetricValues, node \in AlertNodes,
          delay \in {0, 1}, outcome \in ActionOutcomes :
          EvaluateMetric(metric_name, metric_value, node, "c1", delay, outcome)
    \/ ReturnAlerts
    \/ Tick

SpecAlerts == InitAlerts /\ [][NextAlerts]_vars

\* the same manager with cluster and node names that may hold a '/'
KeyClusters == {"a", "a/b"}

KeyNodes == {"c", "b/c"}

NextKeys ==
    \/ \E metric_value \in MetricValues, cluster \in KeyClusters, node \in KeyNodes,
          delay \in {0, 1}, outcome \in ActionOutcomes :
          EvaluateMetric("cpu_percent", metric_value, node, cluster, delay, outcome)
    \/ ReturnAlerts
    \/ Tick

SpecKeys == InitAlerts /\ [][NextKeys]_vars

(***************************************************************************)
(* AlertManager.get_alert_history and clear_alert_history (manager.py      *)
(* 295-301), next to evaluate_metric.                                      *)
(***************************************************************************)
\* line 297: self._alert_history[-limit:]; -0 is 0, and a start of 0 is the
\* whole list
GetAlertHistory(history, limit) ==
    IF limit = 0 THEN history
    ELSE IF limit >= Len(history) THEN history
    ELSE SubSeq(history, Len(history) - limit + 1, Len(history))

GetAlertHistoryCall(limit) ==
    /\ call = NoCall
    /\ call' = [op |-> "get_alert_history", limit |-> limit,
                history_before |-> alert_history,
                result |-> GetAlertHistory(alert_history, limit)]
    /\ UNCHANGED <<files, written, damaged, threads, lock, alertVars, input, output>>

\* lines 299-301
ClearAlertHistory ==
    /\ call = NoCall
    /\ alert_history # <<>>
    /\ alert_history' = <<>>
    /\ call' = [op |-> "clear_alert_history", history_before |-> alert_history]
    /\ UNCHANGED <<files, written, damaged, threads, lock, rules, dicts, scheduler, utcnow, input, output>>

NextApi ==
    \/ \E metric_value \in MetricValues, node \in AlertNodes :
          EvaluateMetric("cpu_percent", metric_value, node, "c1", 0, [a \in ActionNames |-> "True"])
    \/ \E limit \in 0..(MaxAlerts + 1) : GetAlertHistoryCall(limit)
    \/ ClearAlertHistory
    \/ ReturnAlerts
    \/ Tick

SpecApi == InitAlerts /\ [][NextApi]_vars

(***************************************************************************)
(* AlertRule objects with their _last_triggered dict as an object of its   *)
(* own (manager.py 156-168): a rule holds a reference into dicts, and two  *)
(* rules share cooldown state exactly when they hold the same reference.   *)
(***************************************************************************)
\* one dict object for every rule that does not pass its own
SharedDefault(heap) == 1

\* line 168: field(default_factory=dict) makes a new dict for each instance
DefaultFactory(heap) == Len(heap) + 1

\* the rule with its dict in place of the reference
Deref(rule, heap) == [rule EXCEPT !.last_triggered = heap[rule.last_triggered]]

\* lines 257-291 over rule objects; the clock stands still during the call
RECURSIVE EvaluateObjects(_, _, _, _, _, _, _)
EvaluateObjects(rs, heap, i, metric_name, metric_value, node, t) ==
    IF i > Len(rs) THEN [dicts |-> heap, alerts |-> <<>>]
    ELSE LET rule == Deref(rs[i], heap)
             node_key == NodeKey("c1", node)
         IN  IF \/ rule.metric # metric_name
                \/ ~Evaluate(rule, metric_value)
                \/ ~ShouldTrigger(rule, node_key, t)
             THEN EvaluateObjects(rs, heap, i + 1, metric_name, metric_value, node, t)
             ELSE LET marked == [heap EXCEPT ![rs[i].last_triggered] =
                                    MarkTriggered(rule, node_key, t).last_triggered]
                      rest == EvaluateObjects(rs, marked, i + 1, metric_name, metric_value, node, t)
                  IN  [dicts |-> rest.dicts,
                       alerts |-> << AlertEvent(rule, metric_name, metric_value, node, "c1", t) >>
                                  \o rest.alerts]

ObjectRules ==
    [r1 |-> [operator |-> ">=", threshold |-> 80], r2 |-> [operator |-> ">", threshold |-> 80]]

InitObjects ==
    /\ files = EmptyFiles
    /\ written = <<>>
    /\ call = NoCall
    /\ damaged = {}
    /\ threads = NoThreads
    /\ lock = {}
    /\ AlertsIdle
    /\ input = <<>>
    /\ output = Pending

\* AlertRule(...) without _last_triggered, then AlertManager.add_rule
AddRule(name, cooldown_seconds) ==
    /\ call = NoCall
    /\ \A i \in DOMAIN rules : rules[i].name # name
    /\ LET ref == DefaultFactory(dicts)
           rule == AlertRule(name, "cpu_percent", ObjectRules[name].operator,
                             ObjectRules[name].threshold, << "a1" >>, TRUE, cooldown_seconds)
       IN  /\ dicts' = IF ref > Len(dicts) THEN Append(dicts, rule.last_triggered) ELSE dicts
           /\ rules' = Append(rules, [rule EXCEPT !.last_triggered = ref])
    /\ UNCHANGED <<scheduler, files, written, call, damaged, threads, lock, alert_history, utcnow, input, output>>

\* AlertManager.evaluate_metric
EvaluateObjectsCall(metric_value, node) ==
    /\ call = NoCall
    /\ rules # <<>>
    /\ Len(alert_history) < MaxAlerts
    /\ LET r == EvaluateObjects(rules, dicts, 1, "cpu_percent", metric_value, node, utcnow)
       IN  /\ dicts' = r.dicts
           /\ alert_history' = alert_history \o r.alerts
           /\ call' = [op |-> "evaluate_metric", metric_name |-> "cpu_percent",
                       metric_value |-> metric_value, node_name |-> node,
                       cluster_name |-> "c1", at |-> utcnow, dicts_before |-> dicts,
                       history_before |-> alert_history, alerts |-> r.alerts]
    /\ UNCHANGED <<scheduler, files, written, damaged, threads, lock, rules, utcnow, input, output>>

NextObjects ==
    \/ \E name \in DOMAIN ObjectRules, cooldown_seconds \in Cooldowns : AddRule(name, cooldown_seconds)
    \/ \E metric_value \in MetricValues, node \in AlertNodes : EvaluateObjectsCall(metric_value, node)
    \/ ReturnAlerts
    \/ Tick

SpecObjects == InitObjects /\ [][NextObjects]_vars

(***************************************************************************)
(* ClickHouseStatusCollector.collect (collector.py 82-93).  What           *)
(* requests.get does is the input: a response with a status code and a     *)
(* body, or an exception.                                                  *)
(***************************************************************************)
OK_MARKER == << "Ok", "." >>

HTTP_OK == 200

Response(status_code, text) == [kind |-> "response", status_code |-> status_code, text |-> text]

Raised(exception) == [kind |-> exception]

\* the test at line 90 without strip()
IsHealthyExactBody(got) ==
    got.kind = "response" /\ got.status_code = HTTP_OK /\ got.text = OK_MARKER

\* line 90, with lines 91-92 for an exception of requests.get
IsHealthy(got) ==
    got.kind = "response" /\ got.status_code = HTTP_OK /\ Strip(got.text) = OK_MARKER

\* lines 87-93: the MetricValue that collect returns
Collect(got, node, cluster) ==
    MetricValue(<<"clickhouse_status">>, IF IsHealthy(got) THEN 1 ELSE 0,
                IsoFormat(DT(2023, 12, 30, 23, 30)), node, cluster)

StatusCodes == {200, 201, 204, 404, 500}

BodyCores == { <<"Ok", ".">>, <<"Ok">>, <<"ok", ".">>, <<"Error">>, <<>>, <<"Ok", ".", " ", "Ok", ".">> }

BodyMargins == { <<>>, <<" ">>, <<"\n">> }

Bodies == { a \o b \o c : a \in BodyMargins, b \in BodyCores, c \in BodyMargins }

PingOutcomes ==
    { Response(c, t) : c \in StatusCodes, t \in Bodies }
    \cup { Raised(e) : e \in {"ConnectionError", "Timeout"} }

InitPing ==
    /\ files = EmptyFiles
    /\ written = <<>>
    /\ call = NoCall
    /\ damaged = {}
    /\ threads = NoThreads
    /\ lock = {}
    /\ AlertsIdle
    /\ input \in PingOutcomes
    /\ output = Pending

ApplyCollect ==
    /\ output = Pending
    /\ output' = Applied(Collect(input, "n1", "c1"))
    /\ UNCHANGED <<files, written, call, damaged, threads, lock, input, alertVars>>

SpecPing == InitPing /\ [][ApplyCollect]_vars

(***************************************************************************)
(* CollectionScheduler._collection_cycle (scheduler.py 81-127) with        *)
(* MetricRegistry.collect_all (collector.py 654-664) and                   *)
(* MetricStorage.store_batch (collector.py 396-399).  What can go wrong in *)
(* a cycle is its input: the nodes that are down and one fault.            *)
(***************************************************************************)
INTERVAL_SECONDS == 60

Clusters == << [name |-> "c1", nodes |-> << "n1", "n2" >>], [name |-> "c2", nodes |-> << "n3" >>] >>

\* the names of the registered collectors, in registration order
Collectors == << <<"clickhouse_status">>, <<"cpu_percent">> >>

RECURSIVE NodesOf(_)
NodesOf(clusters) ==
    IF clusters = <<>> THEN <<>>
    ELSE [i \in DOMAIN Head(clusters).nodes |->
             [cluster |-> Head(clusters).name, node |-> Head(clusters).nodes[i]]]
         \o NodesOf(Tail(clusters))

NoFault == [stage |-> "none"]

Fault(stage, node, collector) == [stage |-> stage, node |-> node, collector |-> collector]

FaultAt(env, stage, node, collector) == env.fault = Fault(stage, node, collector)

\* float(metric.value) for the values the collectors return
FloatOf(v) ==
    CASE v = IntVal("0") -> 0
      [] v = IntVal("1") -> 1
      [] v = IntVal("10") -> 10

\* what collector.collect returns for a node at time t
CollectorValue(env, collector, node) ==
    IF collector = <<"clickhouse_status">>
    THEN (IF node \in env.down THEN IntVal("0") ELSE IntVal("1"))
    ELSE IntVal("10")

\* collector.py 654-664: a collector that raises is skipped
RECURSIVE CollectAll(_, _, _, _, _)
CollectAll(collectors, env, node, cluster, t) ==
    IF collectors = <<>> THEN <<>>
    ELSE (IF FaultAt(env, "collect", node, Head(collectors)) THEN <<>>
          ELSE << MetricValue(Head(collectors), CollectorValue(env, Head(collectors), node),
                              IsoFormat(t), node, cluster) >>)
         \o CollectAll(Tail(collectors), env, node, cluster, t)

\* collector.py 396-399 with a store() that can raise: the loop ends at the first exception
RECURSIVE StoreBatchOutcome(_, _, _, _)
StoreBatchOutcome(fs, metrics, env, stored) ==
    IF metrics = <<>> THEN [exc |-> "none", files |-> fs, stored |-> stored]
    ELSE IF \/ FaultAt(env, "store", Head(metrics).node_name, Head(metrics).metric_name)
            \/ ~IsIsoText(Head(metrics).timestamp)
    THEN [exc |-> "IOError", files |-> fs, stored |-> stored]
    ELSE StoreBatchOutcome(StoreLines(fs, Head(metrics)), Tail(metrics), env,
                           Append(stored, Head(metrics)))

\* scheduler.py 103-115: the alert loop of one node
RECURSIVE AlertLoop(_, _, _, _, _, _)
AlertLoop(metrics, env, rs, history, t, evaluated) ==
    IF metrics = <<>>
    THEN [exc |-> "none", rules |-> rs, history |-> history, evaluated |-> evaluated]
    ELSE LET metric == Head(metrics)
         IN  IF FaultAt(env, "alert_type", metric.node_name, metric.metric_name)
             THEN AlertLoop(Tail(metrics), env, rs, history, t, evaluated)
             ELSE IF FaultAt(env, "alert_other", metric.node_name, metric.metric_name)
             THEN [exc |-> "RuntimeError", rules |-> rs, history |-> history,
                   evaluated |-> evaluated]
             ELSE LET r == EvaluateRules(rs, 1, metric.metric_name, FloatOf(metric.value),
                                         metric.node_name, metric.cluster_name, t, t,
                                         [a \in ActionNames |-> "True"])
                  IN  AlertLoop(Tail(metrics), env, r.rules, history \o r.alerts, t,
                                Append(evaluated, metric.metric_name))

\* a cycle without the try of line 91
CatchNothing(exc) == exc

\* scheduler.py 117-118: except Exception, logged
CatchException(exc) == "none"

\* an alert loop that runs whatever store_batch did
AlertsSkippedNever(exc) == FALSE

\* scheduler.py 98-103: an exception of store_batch leaves the try block
\* before the alert loop is reached
AlertsSkipped(exc) == exc # "none"

\* scheduler.py 91-118 for one node; st is the state of the cycle so far
NodeStep(st, env, at, t) ==
    LET metrics == CollectAll(Collectors, env, at.node, at.cluster, CycleInstant(t \div INTERVAL_SECONDS))
        stored == StoreBatchOutcome(st.files, metrics, env, <<>>)
        alerted == IF AlertsSkipped(stored.exc)
                   THEN [exc |-> stored.exc, rules |-> st.rules, history |-> st.history,
                         evaluated |-> <<>>]
                   ELSE AlertLoop(metrics, env, st.rules, st.history, t, <<>>)
    IN  [exc |-> CatchException(alerted.exc),
         files |-> stored.files,
         written |-> st.written \o stored.stored,
         rules |-> alerted.rules,
         history |-> alerted.history,
         log |-> Append(st.log, [cluster |-> at.cluster, node |-> at.node,
                                 collected |-> metrics, stored |-> stored.stored,
                                 evaluated |-> alerted.evaluated, error |-> alerted.exc])]

\* scheduler.py 89-90: every node of every cluster, in order
RECURSIVE CycleLoop(_, _, _, _)
CycleLoop(st, env, nodes, t) ==
    IF nodes = <<>> \/ st.exc # "none" THEN st
    ELSE CycleLoop(NodeStep(st, env, Head(nodes), t), env, Tail(nodes), t)

CycleFaults ==
    { NoFault }
    \cup { Fault(stage, NodesOf(Clusters)[n].node, Collectors[c]) :
             stage \in {"collect", "store", "alert_type", "alert_other"},
             n \in DOMAIN NodesOf(Clusters), c \in DOMAIN Collectors }

CycleEnvs == { [down |-> d, fault |-> f] : d \in SUBSET {"n1", "n3"}, f \in CycleFaults }

\* the rule of the cycles: a node whose status is 0
CycleRules ==
    << [AlertRule("node_down", <<"clickhouse_status">>, "==", 0, << "a1" >>, TRUE, 300)
            EXCEPT !.severity = "critical"] >>

InitCycle ==
    /\ files = EmptyFiles
    /\ written = <<>>
    /\ call = NoCall
    /\ damaged = {}
    /\ threads = NoThreads
    /\ lock = {}
    /\ rules = CycleRules
    /\ dicts = <<>>
    /\ scheduler = NoScheduler
    /\ alert_history = <<>>
    /\ utcnow = 0
    /\ input = <<>>
    /\ output = Pending

\* one run of _collection_cycle; no callback is registered
CollectionCycle(env) ==
    /\ call = NoCall
    /\ utcnow < INTERVAL_SECONDS * MaxCycles
    /\ LET st == CycleLoop([exc |-> "none", files |-> files, written |-> written,
                            rules |-> rules, history |-> alert_history, log |-> <<>>],
                           env, NodesOf(Clusters), utcnow)
       IN  /\ files' = st.files
           /\ written' = st.written
           /\ rules' = st.rules
           /\ alert_history' = st.history
           /\ call' = [op |-> "_collection_cycle", env |-> env, exc |-> st.exc, log |-> st.log,
                       history_before |-> alert_history]
    /\ utcnow' = utcnow + INTERVAL_SECONDS
    /\ UNCHANGED <<damaged, threads, lock, dicts, scheduler, input, output>>

ReturnCycle ==
    /\ call # NoCall
    /\ call' = NoCall
    /\ UNCHANGED <<files, written, damaged, threads, lock, alertVars, input, output>>

NextCycle ==
    \/ \E env \in CycleEnvs : CollectionCycle(env)
    \/ ReturnCycle

SpecCycle == InitCycle /\ [][NextCycle]_vars

(***************************************************************************)
(* CollectionScheduler.start, stop, is_running and trigger_collection      *)
(* (scheduler.py 44-79). The BackgroundScheduler is its set of job ids:    *)
(* add_job(..., id='metric_collection', replace_existing=True).            *)
(***************************************************************************)
JOB_ID == "metric_collection"

\* a start that does not look at _running
IsRunningNever(s) == FALSE

\* lines 73-75
IsRunning(s) == s.running

\* the records and events one run of _collection_cycle adds, at time utcnow
CycleRun(env) ==
    CycleLoop([exc |-> "none", files |-> files, written |-> written,
               rules |-> rules, history |-> alert_history, log |-> <<>>],
              env, NodesOf(Clusters), utcnow)

\* the state after op, which ran _collection_cycle once
AfterCycle(op, env, s) ==
    /\ files' = CycleRun(env).files
    /\ written' = CycleRun(env).written
    /\ rules' = CycleRun(env).rules
    /\ alert_history' = CycleRun(env).history
    /\ scheduler' = [s EXCEPT !.cycles = @ + 1]
    /\ call' = [op |-> op, scheduler_before |-> scheduler, written_before |-> written,
                log |-> CycleRun(env).log]

\* the state after op, which returned at once
AfterReturn(op, s) ==
    /\ scheduler' = s
    /\ call' = [op |-> op, scheduler_before |-> scheduler, written_before |-> written,
                log |-> <<>>]
    /\ UNCHANGED <<files, written, rules, alert_history>>

\* lines 44-62
Start(env) ==
    /\ call = NoCall
    /\ IF IsRunning(scheduler) THEN AfterReturn("start", scheduler)
       ELSE /\ scheduler.cycles < MaxRuns
            /\ AfterCycle("start", env,
                          [scheduler EXCEPT !.jobs = @ \cup {JOB_ID}, !.running = TRUE])
    /\ UNCHANGED <<damaged, threads, lock, dicts, utcnow, input, output>>

\* lines 64-71
Stop ==
    /\ call = NoCall
    /\ IF ~IsRunning(scheduler) THEN AfterReturn("stop", scheduler)
       ELSE AfterReturn("stop", [scheduler EXCEPT !.running = FALSE])
    /\ UNCHANGED <<damaged, threads, lock, dicts, utcnow, input, output>>

\* lines 77-79
TriggerCollection(env) ==
    /\ call = NoCall
    /\ scheduler.cycles < MaxRuns
    /\ AfterCycle("trigger_collection", env, scheduler)
    /\ UNCHANGED <<damaged, threads, lock, dicts, utcnow, input, output>>

\* the interval job of a running scheduler fires, one interval later
IntervalJob(env) ==
    /\ call = NoCall
    /\ IsRunning(scheduler) /\ JOB_ID \in scheduler.jobs
    /\ scheduler.cycles < MaxRuns
    /\ utcnow < INTERVAL_SECONDS * MaxCycles
    /\ utcnow' = utcnow + INTERVAL_SECONDS
    /\ AfterCycle("interval_job", env, scheduler)
    /\ UNCHANGED <<damaged, threads, lock, dicts, input, output>>

ReturnScheduler ==
    /\ call # NoCall
    /\ call' = NoCall
    /\ UNCHANGED <<files, written, damaged, threads, lock, alertVars, input, output>>

\* the cycles of the lifecycle: no fault, n1 up or down
LifecycleEnvs == { [down |-> d, fault |-> NoFault] : d \in { {}, {"n1"} } }

NextLifecycle ==
    \/ \E env \in LifecycleEnvs : Start(env) \/ TriggerCollection(env) \/ IntervalJob(env)
    \/ Stop
    \/ ReturnScheduler

SpecLifecycle == InitCycle /\ [][NextLifecycle]_vars

(***************************************************************************)
(* JsonMetricReader: _find_json_files, _find_latest_json_file and          *)
(* get_latest_metrics (json_storage.py 105-215).                           *)
(***************************************************************************)
\* timedelta(days=1) back and forth on a calendar date
PrevDay(dt) ==
    IF dt.d > 1 THEN [dt EXCEPT !.d = @ - 1]
    ELSE IF dt.mo > 1 THEN [dt EXCEPT !.mo = @ - 1, !.d = DaysInMonth(dt.y, dt.mo - 1)]
    ELSE [dt EXCEPT !.y = @ - 1, !.mo = 12, !.d = 31]

NextDay(dt) ==
    IF dt.d < DaysInMonth(dt.y, dt.mo) THEN [dt EXCEPT !.d = @ + 1]
    ELSE IF dt.mo < 12 THEN [dt EXCEPT !.mo = @ + 1, !.d = 1]
    ELSE [dt EXCEPT !.y = @ + 1, !.mo = 1, !.d = 1]

DateOf(dt) == << dt.y, dt.mo, dt.d >>

\* the files that glob finds under a cluster directory
IsSnapshotOf(path, cluster) == Len(path) = 10 /\ path[1] = cluster

\* line 147: strptime of the stamp in the file name
FileTime(path) == DT(path[6], path[7], path[8], path[9], path[10])

\* lines 139-151: the files of one day directory that lie in the range
DayFiles(fs, cluster, date, start_time, end_time) ==
    { path \in DOMAIN fs :
        /\ IsSnapshotOf(path, cluster)
        /\ << path[2], path[3], path[4] >> = date
        /\ DtLeq(start_time, FileTime(path))
        /\ DtLeq(FileTime(path), end_time) }

\* lines 134-153: the loop over the dates of the range
RECURSIVE DateLoop(_, _, _, _, _, _)
DateLoop(fs, cluster, current_date, start_time, end_time, json_files) ==
    IF LexLess(DateOf(end_time), DateOf(current_date)) THEN json_files
    ELSE DateLoop(fs, cluster, NextDay(current_date), start_time, end_time,
                  json_files \cup DayFiles(fs, cluster, DateOf(current_date), start_time, end_time))

\* lines 156-157: sorted by file time
RECURSIVE SortByFileTime(_)
SortByFileTime(paths) ==
    IF paths = {} THEN <<>>
    ELSE LET first == CHOOSE p \in paths :
                         \A q \in paths : DtLeq(FileTime(p), FileTime(q))
         IN  << first >> \o SortByFileTime(paths \ {first})

\* lines 105-157 with the range given
FindJsonFiles(fs, cluster, start_time, end_time) ==
    SortByFileTime(DateLoop(fs, cluster, start_time, start_time, end_time, {}))

\* a lookup without the second step
FindNoFile(fs, cluster) == {}

\* lines 168-192: the greatest path of the cluster, None ({}) without a file
FindLatestJsonFile(fs, cluster) ==
    LET json_files == { path \in DOMAIN fs : IsSnapshotOf(path, cluster) }
    IN  { p \in json_files :
            \A q \in json_files : q = p \/ LexLess(SubSeq(q, 2, 4) \o SubSeq(q, 6, 10),
                                                    SubSeq(p, 2, 4) \o SubSeq(p, 6, 10)) }

\* lines 194-215, at clock time now; timedelta(hours=24) is one day back
GetLatestMetrics(fs, cluster, now) ==
    LET json_files == FindJsonFiles(fs, cluster, PrevDay(now), now)
        latest_file == FindLatestJsonFile(fs, cluster)
    IN  IF json_files # <<>> THEN ReadJsonFile(fs, json_files[Len(json_files)])
        ELSE IF latest_file # {} THEN ReadJsonFile(fs, CHOOSE p \in latest_file : TRUE)
        ELSE <<>>

\* the snapshots on disk: one record each, stamped with the minute of the file
SnapshotInstants ==
    { DT(2023, 12, 29, 10, 0), DT(2023, 12, 30, 23, 30), DT(2023, 12, 30, 23, 31),
      DT(2023, 12, 31, 23, 59), DT(2024, 1, 1, 0, 0), DT(2024, 1, 1, 0, 1) }

ReaderInstants ==
    { DT(2023, 12, 31, 23, 30), DT(2024, 1, 1, 0, 0), DT(2024, 1, 2, 0, 0), DT(2024, 3, 1, 12, 0) }

SnapshotOf(cluster, t) ==
    JsonDump(<< FormatMetricJson(MetricValue(<<"clickhouse_status">>, IntVal("1"),
                                             IsoFormat(t), "n1", cluster), {}) >>)

SnapshotFiles(stamps, others) ==
    [path \in { SnapshotPath("c1", t) : t \in stamps } \cup { SnapshotPath("c2", t) : t \in others }
        |-> SnapshotOf(path[1], FileTime(path))]

InitLatest ==
    /\ \E stamps \in SUBSET SnapshotInstants, others \in { {}, { DT(2024, 1, 1, 0, 1) } } :
          files = SnapshotFiles(stamps, others)
    /\ written = <<>>
    /\ call = NoCall
    /\ damaged = {}
    /\ threads = NoThreads
    /\ lock = {}
    /\ AlertsIdle
    /\ input \in ReaderInstants
    /\ output = Pending

ApplyGetLatestMetrics ==
    /\ output = Pending
    /\ output' = Applied(GetLatestMetrics(files, "c1", input))
    /\ UNCHANGED <<files, written, call, damaged, threads, lock, input, alertVars>>

SpecLatest == InitLatest /\ [][ApplyGetLatestMetrics]_vars

(***************************************************************************)
(* JsonMetricReader._find_all_json_files and get_node_history              *)
(* (json_storage.py 283-343).                                              *)
(***************************************************************************)
PathKey(path) == SubSeq(path, 2, 4) \o SubSeq(path, 6, 10)

\* lines 283-303: every snapshot of the cluster, sorted by path
RECURSIVE SortByPath(_)
SortByPath(paths) ==
    IF paths = {} THEN <<>>
    ELSE LET first == CHOOSE p \in paths :
                         \A q \in paths : q = p \/ LexLess(PathKey(p), PathKey(q))
         IN  << first >> \o SortByPath(paths \ {first})

FindAllJsonFiles(fs, cluster) ==
    SortByPath({ path \in DOMAIN fs : IsSnapshotOf(path, cluster) })

\* lines 332-337
HistoryEntry(m) ==
    [timestamp |-> m.logtime, value |-> m.metricvalue, metric_name |-> m.metricname,
     status_text |-> IF PyEq(m.metricvalue, IntVal("1")) THEN "healthy" ELSE "down"]

\* lines 330-337: the records of one file that belong to the node
RECURSIVE NodeEntries(_, _)
NodeEntries(metrics, node_name) ==
    IF metrics = <<>> THEN <<>>
    ELSE (IF Head(metrics).machinename = node_name THEN << HistoryEntry(Head(metrics)) >> ELSE <<>>)
         \o NodeEntries(Tail(metrics), node_name)

\* lines 328-340: the loop over the files, then the sort by timestamp
RECURSIVE HistoryLoop(_, _, _, _)
HistoryLoop(fs, json_files, node_name, history) ==
    IF json_files = <<>> THEN [exc |-> "none", out |-> SortByTimestamp(history)]
    ELSE IF ReadJsonFileExc(fs, Head(json_files)) # "none"
         THEN [exc |-> ReadJsonFileExc(fs, Head(json_files)), out |-> <<>>]
         ELSE HistoryLoop(fs, Tail(json_files), node_name,
                          history \o NodeEntries(ReadJsonFile(fs, Head(json_files)), node_name))

\* lines 305-343 with hours = 24, at clock time now
GetNodeHistory(fs, cluster_name, node_name, now) ==
    LET in_window == FindJsonFiles(fs, cluster_name, PrevDay(now), now)
        json_files == IF in_window = <<>> THEN FindAllJsonFiles(fs, cluster_name) ELSE in_window
    IN  HistoryLoop(fs, json_files, node_name, <<>>)

\* the snapshots of cluster c1: a file is whole, cut short, or cut inside a
\* multi-byte character
HistoryStamps == { DT(2023, 12, 30, 23, 30), DT(2023, 12, 31, 23, 30), DT(2024, 1, 1, 0, 30) }

HistoryClocks == { DT(2023, 12, 31, 23, 30), DT(2024, 1, 1, 1, 15), DT(2024, 3, 1, 12, 0) }

FileKinds == { "whole", "cut", "undecodable" }

HistoryRecords(t) ==
    << FormatMetricJson(MetricValue(<<"clickhouse_status">>, IntVal("1"), IsoFormat(t), "n1", "c1"), {}),
       FormatMetricJson(MetricValue(<<"clickhouse_status">>, IntVal("0"), IsoFormat(t), "n2", "c1"), {}) >>

FileText(kind, t) ==
    IF kind = "whole" THEN JsonDump(HistoryRecords(t))
    ELSE IF kind = "cut" THEN << JsonOpen, HistoryRecords(t)[1] >>
    ELSE << JsonOpen, HistoryRecords(t)[1], Undecodable >>

InitHistory ==
    /\ \E stamps \in SUBSET HistoryStamps : \E kind \in [stamps -> FileKinds] :
          files = [path \in { SnapshotPath("c1", t) : t \in stamps }
                      |-> FileText(kind[FileTime(path)], FileTime(path))]
    /\ written = <<>>
    /\ call = NoCall
    /\ damaged = {}
    /\ threads = NoThreads
    /\ lock = {}
    /\ AlertsIdle
    /\ input \in HistoryClocks
    /\ output = Pending

ApplyGetNodeHistory ==
    /\ output = Pending
    /\ output' = Applied(GetNodeHistory(files, "c1", "n1", input))
    /\ UNCHANGED <<files, written, call, damaged, threads, lock, input, alertVars>>

SpecHistory == InitHistory /\ [][ApplyGetNodeHistory]_vars

(***************************************************************************)
(* Construction from configuration: AlertActionFactory.create (manager.py  *)
(* 205-224), AlertManager.load_rules_from_file (303-336) and               *)
(* ClusterProviderFactory.create (provider.py 307-321).                    *)
(***************************************************************************)
ActionTypes == {"log", "webhook", "email", "file"}

ProviderTypes == {"file", "database", "powershell"}

\* manager.py 208-224
CreateAction(action_type) ==
    IF action_type \in ActionTypes THEN [exc |-> "none", action |-> action_type]
    ELSE [exc |-> "ValueError", action |-> action_type]

\* provider.py 310-321
CreateProvider(provider_type) ==
    IF provider_type \in ProviderTypes THEN [exc |-> "none", provider |-> provider_type]
    ELSE [exc |-> "ValueError", provider |-> provider_type]

\* manager.py 316-325: the actions of one rule; except Exception logs a warning
RECURSIVE CreateActions(_)
CreateActions(actions_data) ==
    IF actions_data = <<>> THEN <<>>
    ELSE (IF CreateAction(Head(actions_data)).exc = "none"
          THEN << CreateAction(Head(actions_data)).action >> ELSE <<>>)
         \o CreateActions(Tail(actions_data))

\* the keys that rule_data[...] reads without a default (lines 328-331)
RequiredFields == {"name", "metric", "operator", "threshold"}

\* manager.py 314-337: the loop over data['rules'], adding to the rules so far
RECURSIVE LoadRules(_, _)
LoadRules(rules_data, loaded) ==
    IF rules_data = <<>> THEN [exc |-> "none", rules |-> loaded]
    ELSE LET rule_data == Head(rules_data)
         IN  IF ~(RequiredFields \subseteq rule_data.fields)
             THEN [exc |-> "KeyError", rules |-> loaded]
             ELSE LoadRules(Tail(rules_data),
                            Append(loaded, AlertRule(rule_data.name, "cpu_percent", ">", 80,
                                                     CreateActions(rule_data.actions), TRUE, 300)))

\* configurations: one or two rules, each with up to MaxActions actions
MaxActions == 2

ConfigActionTypes == {"log", "file", "sms"}

ConfigActions == UNION { [1..n -> ConfigActionTypes] : n \in 0..MaxActions }

RuleData(name) ==
    { [name |-> name, fields |-> fields, actions |-> actions] :
        fields \in { RequiredFields, RequiredFields \ {"metric"} }, actions \in ConfigActions }

ConfigInputs ==
    { [kind |-> "rules", data |-> << a >>] : a \in RuleData("r1") }
    \cup { [kind |-> "rules", data |-> << a, b >>] : a \in RuleData("r1"), b \in RuleData("r2") }

ProviderInputs == { [kind |-> "provider", provider_type |-> t] : t \in ProviderTypes \cup {"ldap"} }

InitConfig ==
    /\ files = EmptyFiles
    /\ written = <<>>
    /\ call = NoCall
    /\ damaged = {}
    /\ threads = NoThreads
    /\ lock = {}
    /\ AlertsIdle
    /\ input \in ConfigInputs \/ input \in ProviderInputs
    /\ output = Pending

\* AlertManager.load_rules_from_file on a manager without rules
LoadRulesFromFile ==
    /\ output = Pending
    /\ input.kind = "rules"
    /\ rules' = LoadRules(input.data, rules).rules
    /\ output' = Applied([exc |-> LoadRules(input.data, rules).exc])
    /\ UNCHANGED <<files, written, call, damaged, threads, lock, dicts, scheduler, input, alert_history, utcnow>>

\* ClusterProviderFactory.create
CreateProviderCall ==
    /\ output = Pending
    /\ input.kind = "provider"
    /\ output' = Applied([exc |-> CreateProvider(input.provider_type).exc])
    /\ UNCHANGED <<files, written, call, damaged, threads, lock, input, alertVars>>

NextConfig == LoadRulesFromFile \/ CreateProviderCall

SpecConfig == InitConfig /\ [][NextConfig]_vars

(***************************************************************************)
(* PowerShellClusterProvider.parse_machine_info_csv (provider.py 253-301). *)
(***************************************************************************)
COL_MACHINE_NAME == 0
COL_MACHINE_FUNCTION == 2
COL_STATIC_IP == 6
COL_STATUS == 10
COL_ENVIRONMENT == 17

\* line.split(','): the texts between the commas
RECURSIVE SplitComma(_)
SplitComma(t) ==
    LET i == FirstAt(t, ",", 1)
    IN  IF i = 0 THEN << t >>
        ELSE << SubSeq(t, 1, i - 1) >> \o SplitComma(SubSeq(t, i + 1, Len(t)))

\* lines 285-295
Node(machine_name, machine_function, static_ip, status, environment) ==
    [name |-> machine_name, type |-> machine_function,
     host |-> IF static_ip # <<>> THEN static_ip ELSE machine_name,
     collection_method |-> "remote",
     attributes |-> [status |-> status, environment |-> environment]]

\* lines 267-297: one line of the content; the nodes it adds
ParseLine(raw) ==
    LET line == Strip(raw)
        fields == SplitComma(line)
    IN  IF line = <<>> \/ Head(line) = "#" THEN <<>>
        ELSE IF Len(fields) <= COL_ENVIRONMENT THEN <<>>
        ELSE IF Strip(fields[COL_MACHINE_NAME + 1]) = <<>> THEN <<>>
        ELSE << Node(Strip(fields[COL_MACHINE_NAME + 1]), Strip(fields[COL_MACHINE_FUNCTION + 1]),
                     Strip(fields[COL_STATIC_IP + 1]), Strip(fields[COL_STATUS + 1]),
                     Strip(fields[COL_ENVIRONMENT + 1])) >>

\* lines 264-299 over the lines of csv_content.strip().split('\n')
RECURSIVE ParseMachineInfoCsv(_)
ParseMachineInfoCsv(lines) ==
    IF lines = <<>> THEN <<>>
    ELSE ParseLine(Head(lines)) \o ParseMachineInfoCsv(Tail(lines))

\* the rows of a machineinfo listing and the text of each
MaxLines == 3

RECURSIVE JoinComma(_)
JoinComma(fs) ==
    IF Len(fs) = 1 THEN fs[1] ELSE fs[1] \o << "," >> \o JoinComma(Tail(fs))

MachineLine(machine_name, machine_function, static_ip) ==
    JoinComma(<< machine_name, <<"POD1">>, machine_function, <<"0">>, <<"Image">>, <<"SKU">>,
                 static_ip, <<"100">>, machine_function, <<"100">>, <<"H">>, <<"None">>,
                 <<"0">>, <<"0">>, <<"1900-01-01">>, <<>>, <<>>, <<"Cluster1">>, machine_name >>)

MachineRows ==
    { [kind |-> "comment", text |-> << "#", "EOF" >>],
      [kind |-> "empty", text |-> <<>>],
      [kind |-> "empty", text |-> << " " >>],
      [kind |-> "short", text |-> << "NODE009", ",", "POD1", ",", "CH" >>] }
    \cup { [kind |-> "data", text |-> MachineLine(n, f, ip), name |-> n, function |-> f, ip |-> ip] :
             n \in { <<"NODE001">>, << " ", "NODE002" >>, <<>> },
             f \in { <<"CH">>, <<"UTILITY">> },
             ip \in { <<"10.0.0.1">>, <<>> } }

InitMachineInfo ==
    /\ files = EmptyFiles
    /\ written = <<>>
    /\ call = NoCall
    /\ damaged = {}
    /\ threads = NoThreads
    /\ lock = {}
    /\ AlertsIdle
    /\ input \in UNION { [1..n -> { r.text : r \in MachineRows }] : n \in 0..MaxLines }
    /\ output = Pending

ApplyParseMachineInfoCsv ==
    /\ output = Pending
    /\ output' = Applied(ParseMachineInfoCsv(input))
    /\ UNCHANGED <<files, written, call, damaged, threads, lock, input, alertVars>>

SpecMachineInfo == InitMachineInfo /\ [][ApplyParseMachineInfoCsv]_vars

(***************************************************************************)
(* evaluate_metric called from two threads: the interval job of the        *)
(* BackgroundScheduler (scheduler.py 48-56) and a caller of                *)
(* trigger_collection (77-79). manager.py 257-291 takes no lock; a thread  *)
(* can be switched between any two of its statements.                      *)
(***************************************************************************)
Evaluators == {"timer", "manual"}

IdleEvaluator == [pc |-> "idle", i |-> 0, metric_value |-> 0, node_name |-> "", alert |-> <<>>]

RaceRules ==
    { << AlertRule("r1", "cpu_percent", ">", 80, << "a1" >>, TRUE, cd) >> : cd \in Cooldowns }

InitRace ==
    /\ files = EmptyFiles
    /\ written = <<>>
    /\ call = NoCall
    /\ damaged = {}
    /\ threads = [t \in Evaluators |-> IdleEvaluator]
    /\ lock = {}
    /\ rules \in RaceRules
    /\ dicts = <<>>
    /\ scheduler = NoScheduler
    /\ alert_history = <<>>
    /\ utcnow = 0
    /\ input = <<>>
    /\ output = Pending

\* lines 251-257: the call starts at the first rule
EvalBegin(t, metric_value, node) ==
    /\ threads[t].pc = "idle"
    /\ Len(alert_history) < MaxAlerts
    /\ threads' = [threads EXCEPT ![t] = [pc |-> "check", i |-> 1, metric_value |-> metric_value,
                                          node_name |-> node, alert |-> <<>>]]
    /\ UNCHANGED <<files, written, call, damaged, lock, input, output, alertVars>>

\* lines 258-280: the three tests of one rule and the AlertEvent
EvalCheck(t) ==
    /\ threads[t].pc = "check"
    /\ threads[t].i <= Len(rules)
    /\ LET rule == rules[threads[t].i]
           th == threads[t]
       IN  IF \/ rule.metric # "cpu_percent"
              \/ ~Evaluate(rule, th.metric_value)
              \/ ~ShouldTrigger(rule, NodeKey("c1", th.node_name), utcnow)
           THEN threads' = [threads EXCEPT ![t].i = @ + 1]
           ELSE threads' = [threads EXCEPT ![t].pc = "fire",
                               ![t].alert = << AlertEvent(rule, "cpu_percent", th.metric_value,
                                                          th.node_name, "c1", utcnow) >>]
    /\ UNCHANGED <<files, written, call, damaged, lock, input, output, alertVars>>

\* lines 283-291: the actions, mark_triggered, the history
EvalFire(t) ==
    /\ threads[t].pc = "fire"
    /\ rules' = [rules EXCEPT ![threads[t].i] =
                    MarkTriggered(@, NodeKey("c1", threads[t].node_name), utcnow)]
    /\ alert_history' = alert_history \o threads[t].alert
    /\ threads' = [threads EXCEPT ![t].pc = "check", ![t].i = @ + 1, ![t].alert = <<>>]
    /\ UNCHANGED <<files, written, call, damaged, lock, dicts, scheduler, input, output, utcnow>>

\* line 293
EvalReturn(t) ==
    /\ threads[t].pc = "check"
    /\ threads[t].i > Len(rules)
    /\ threads' = [threads EXCEPT ![t] = IdleEvaluator]
    /\ UNCHANGED <<files, written, call, damaged, lock, input, output, alertVars>>

\* time passes
RaceTick ==
    /\ utcnow < MaxTime
    /\ utcnow' = utcnow + 1
    /\ UNCHANGED <<files, written, call, damaged, threads, lock, rules, dicts, scheduler, alert_history,
                   input, output>>

NextRace ==
    \/ \E t \in Evaluators, metric_value \in MetricValues, node \in AlertNodes :
          EvalBegin(t, metric_value, node)
    \/ \E t \in Evaluators : EvalCheck(t) \/ EvalFire(t) \/ EvalReturn(t)
    \/ RaceTick

SpecRace == InitRace /\ [][NextRace]_vars

(***************************************************************************)
(* Vocabulary of the properties.                                           *)
(***************************************************************************)
Range(f) == { f[i] : i \in DOMAIN f }
Count(f, x) == Cardinality({ i \in DOMAIN f : f[i] = x })
IsPermutation(a, b) ==
    /\ Len(a) = Len(b)
    /\ \A x \in Range(a) \cup Range(b) : Count(a, x) = Count(b, x)

Ascending(out) ==
    \A i, j \in DOMAIN out : i < j => ~TsLess(out[j], out[i])

\* one hour later and one hour earlier, by the calendar
HourAfter(dt) ==
    IF dt.h < 23 THEN [dt EXCEPT !.h = @ + 1]
    ELSE IF dt.d < DaysInMonth(dt.y, dt.mo) THEN [dt EXCEPT !.d = @ + 1, !.h = 0]
    ELSE IF dt.mo < 12 THEN [dt EXCEPT !.mo = @ + 1, !.d = 1, !.h = 0]
    ELSE [dt EXCEPT !.y = @ + 1, !.mo = 1, !.d = 1, !.h = 0]

HourBefore(dt) ==
    IF dt.h > 0 THEN [dt EXCEPT !.h = @ - 1]
    ELSE IF dt.d > 1 THEN [dt EXCEPT !.d = @ - 1, !.h = 23]
    ELSE IF dt.mo > 1
         THEN [dt EXCEPT !.mo = @ - 1, !.d = DaysInMonth(dt.y, dt.mo - 1), !.h = 23]
    ELSE [dt EXCEPT !.y = @ - 1, !.mo = 12, !.d = 31, !.h = 23]

\* the hours that intersect [start_time, end_time], ascending
RECURSIVE HoursFrom(_, _)
HoursFrom(current, end_time) ==
    IF ~DtLeq(current, end_time) THEN <<>>
    ELSE << current >> \o HoursFrom(HourAfter(current), end_time)

HoursOf(start_time, end_time) == HoursFrom(TruncHour(start_time), end_time)

InRange(m, start_time, end_time) ==
    /\ DtLeq(start_time, FromIsoFormat(m.timestamp))
    /\ DtLeq(FromIsoFormat(m.timestamp), end_time)

NoBucketOf(cluster, node) ==
    \A p \in DOMAIN files : p[1] # cluster \/ p[2] # node

QueryDone == call # NoCall /\ call.op = "query" /\ call.cls = "JsonMetricStorage"
LatestDone == call # NoCall /\ call.op = "get_latest" /\ call.cls = "JsonMetricStorage"

(***************************************************************************)
(* C1. After any stores for one (cluster, node), a query whose range       *)
(* covers every written timestamp returns each written record exactly      *)
(* once, in ascending timestamp order.                                     *)
(***************************************************************************)
C1_QueryReturnsEveryWrittenRecord ==
    ( /\ QueryDone
      /\ call.cluster = "c1" /\ call.node = "n1" /\ call.metric_name = {}
      /\ damaged = {}
      /\ \A i \in DOMAIN written : InRange(written[i], call.start_time, call.end_time) )
    => ( /\ call.res.exc = "none"
         /\ IsPermutation(call.res.out, written)
         /\ Ascending(call.res.out) )

(***************************************************************************)
(* C2. A query over buckets that hold records returns, and returns only    *)
(* the records inside [start, end] and, when a metric name is given, of    *)
(* that name.                                                              *)
(***************************************************************************)
C2_QueryReturnsOnlyMatching ==
    ( /\ QueryDone
      /\ damaged = {}
      /\ \E h \in Range(HoursOf(call.start_time, call.end_time)) :
            BucketPath(call.cluster, call.node, h) \in DOMAIN files )
    => ( /\ call.res.exc = "none"
         /\ \A i \in DOMAIN call.res.out :
               /\ InRange(call.res.out[i], call.start_time, call.end_time)
               /\ (call.metric_name = {}
                   \/ call.res.out[i].metric_name \in call.metric_name) )

(***************************************************************************)
(* C3. A query visits exactly the hour buckets that intersect              *)
(* [start, end], one hour per step from the hour of start, across day,     *)
(* month and year boundaries, and does not raise.                          *)
(***************************************************************************)
C3_QueryVisitsEveryHour ==
    (QueryDone /\ NoBucketOf(call.cluster, call.node))
    => ( /\ call.res.exc = "none"
         /\ call.res.visited = HoursOf(call.start_time, call.end_time) )

(***************************************************************************)
(* C5. A query over a window without any bucket file returns the empty     *)
(* list and does not raise.                                                *)
(***************************************************************************)
C5_QueryWithoutFilesIsEmpty ==
    ( /\ QueryDone
      /\ \A h \in Range(HoursOf(call.start_time, call.end_time)) :
            BucketPath(call.cluster, call.node, h) \notin DOMAIN files )
    => (call.res.exc = "none" /\ call.res.out = <<>>)

(***************************************************************************)
(* C6. A query over a range with a damaged bucket does not raise and still *)
(* returns the records of the other buckets of the range.                  *)
(***************************************************************************)
C6_DamagedBucketIsEmpty ==
    ( /\ QueryDone
      /\ call.cluster = "c1" /\ call.node = "n1" /\ call.metric_name = {}
      /\ \E h \in Range(HoursOf(call.start_time, call.end_time)) :
            BucketPath("c1", "n1", h) \in damaged )
    => ( /\ call.res.exc = "none"
         /\ \A i \in DOMAIN written :
               ( /\ InRange(written[i], call.start_time, call.end_time)
                 /\ BucketPath("c1", "n1", FromIsoFormat(written[i].timestamp)) \notin damaged )
               => written[i] \in Range(call.res.out) )

(***************************************************************************)
(* C9. get_latest returns the records of the current hour when there are   *)
(* any, else those of the previous hour; it reads no other bucket and does *)
(* not raise, at hour 00 and on the first day of a month included. Stated  *)
(* for a node with no bucket at all, where the result is the empty list.   *)
(***************************************************************************)
C9_GetLatestTwoHours ==
    (LatestDone /\ NoBucketOf(call.cluster, call.node))
    => ( /\ call.res.exc = "none"
         /\ call.res.out = <<>>
         /\ Range(call.res.visited) \subseteq
                { TruncHour(call.now), HourBefore(TruncHour(call.now)) } )

(***************************************************************************)
(* C4. Round trip: a record written as a CSV line and read back has the    *)
(* same metric_name, timestamp, value, node_name and cluster_name, for     *)
(* every integer and floating-point value. Stated for metric names without *)
(* a comma or an outer blank.                                              *)
(***************************************************************************)
C4_RoundTripKeepsRecord ==
    (output.done /\ input.metric_name \in { <<"cpu">>, <<"clickhouse_status">> })
    => ( /\ output.value # None
         /\ output.value.metric_name = input.metric_name
         /\ output.value.timestamp = input.timestamp
         /\ PyEq(output.value.value, input.value)
         /\ output.value.node_name = input.node_name
         /\ output.value.cluster_name = input.cluster_name )

PathOf(metric) ==
    BucketPath(metric.cluster_name, metric.node_name, FromIsoFormat(metric.timestamp))

StoredInto(path) ==
    LET idx == { i \in DOMAIN written : PathOf(written[i]) = path }
    IN  { << i, MetricToCsvLine(written[i]) >> : i \in idx }

WritersDone == \A t \in Writers : threads[t].pc = "idle" /\ threads[t].todo = <<>>

C7_ConcurrentStoresKeepFile ==
    WritersDone
    => \A path \in DOMAIN files :
          /\ files[path] # <<>>
          /\ Head(files[path]) = CSV_HEADER
          /\ Count(files[path], CSV_HEADER) = 1
          /\ Len(files[path]) = 1 + Cardinality(StoredInto(path))
          /\ \A il \in StoredInto(path) :
                Count(files[path], il[2])
                    = Cardinality({ jl \in StoredInto(path) : jl[2] = il[2] })

\* both threads have stored into one bucket file
C7_Witness ==
    /\ WritersDone
    /\ \E a \in Range(threads["timer"].stored), b \in Range(threads["manual"].stored) :
          PathOf(a) = PathOf(b)

(***************************************************************************)
(* C8. A reader that runs while a writer writes sees the records the file  *)
(* had before the write or the records it has after it, nothing else.      *)
(***************************************************************************)
C8_ReaderSeesBeforeOrAfter ==
    threads[Reader].pc = "done" => threads[Reader].result \in threads[Reader].allowed

(***************************************************************************)
(* C11. The summary of a timeline: total_checks is the number of entries,  *)
(* healthy_count the number of entries with status 1, unhealthy_count the  *)
(* rest, status_changes the changed entries in order, current_status the   *)
(* status text of the last entry, availability_percent the percentage of   *)
(* healthy entries rounded to two places; all zero and no current status   *)
(* for an empty timeline.                                                  *)
(***************************************************************************)
RECURSIVE PickChanged(_, _)
PickChanged(records, i) ==
    IF i > Len(records) THEN <<>>
    ELSE (IF i > 1 /\ ~PyEq(records[i].value, records[i - 1].value) THEN << i >> ELSE <<>>)
         \o PickChanged(records, i + 1)

EvaluateDone == "op" \in DOMAIN call /\ call.op = "evaluate_metric"

Compares(op, x, y) ==
    \/ op = ">" /\ x > y
    \/ op = "<" /\ x < y
    \/ op = ">=" /\ ~(x < y)
    \/ op = "<=" /\ ~(x > y)
    \/ op = "==" /\ x = y
    \/ op = "!=" /\ (x < y \/ x > y)

CallKey == << call.cluster_name, "/", call.node_name >>

Due(rule) ==
    /\ rule.enabled
    /\ rule.metric = call.metric_name
    /\ Compares(rule.operator, call.metric_value, rule.threshold)
    /\ \/ CallKey \notin DOMAIN rule.last_triggered
       \/ call.at >= rule.last_triggered[CallKey] + rule.cooldown_seconds

EventsOf(events, rule_name) == { i \in DOMAIN events : events[i].rule_name = rule_name }

C12_OneEventPerDueRule ==
    EvaluateDone
    => /\ call.exc = "none"
       /\ \A i \in DOMAIN call.rules_before :
             LET rule == call.rules_before[i]
             IN  /\ Cardinality(EventsOf(call.alerts, rule.name)) = (IF Due(rule) THEN 1 ELSE 0)
                 /\ \A e \in EventsOf(call.alerts, rule.name) :
                       /\ call.alerts[e].metric_name = call.metric_name
                       /\ call.alerts[e].current_value = call.metric_value
                       /\ call.alerts[e].node_name = call.node_name
                       /\ call.alerts[e].cluster_name = call.cluster_name
                       /\ call.alerts[e].threshold = rule.threshold
       /\ \A e \in DOMAIN call.alerts :
             \E i \in DOMAIN call.rules_before :
                 call.rules_before[i].name = call.alerts[e].rule_name

\* value 90 against '>' 80 with cooldown 0: two rules fire in one call
C12_Witness ==
    /\ EvaluateDone
    /\ call.metric_value = 90
    /\ call.rules_before[1].operator = ">"
    /\ call.rules_before[1].threshold = 80
    /\ call.rules_before[1].cooldown_seconds = 0
    /\ Len(call.alerts) = 2

(***************************************************************************)
(* C13. Cooldown: two events of one rule for one node key are at least     *)
(* cooldown_seconds apart.                                                 *)
(***************************************************************************)
CooldownOf(rule_name) ==
    LET i == CHOOSE k \in DOMAIN rules : rules[k].name = rule_name
    IN  rules[i].cooldown_seconds

C13_CooldownBetweenEvents ==
    \A i \in DOMAIN alert_history, j \in DOMAIN alert_history :
        ( /\ i < j
          /\ alert_history[i].rule_name = alert_history[j].rule_name
          /\ alert_history[i].node_name = alert_history[j].node_name
          /\ alert_history[i].cluster_name = alert_history[j].cluster_name )
        => alert_history[j].timestamp
               >= alert_history[i].timestamp + CooldownOf(alert_history[i].rule_name)

\* a second qualifying evaluation at the instant of the first, cooldown 300: no second event
C13_Witness ==
    /\ EvaluateDone
    /\ \E i \in DOMAIN call.rules_before :
          LET rule == call.rules_before[i]
          IN  /\ rule.cooldown_seconds = 300
              /\ rule.enabled
              /\ rule.metric = call.metric_name
              /\ Compares(rule.operator, call.metric_value, rule.threshold)
              /\ CallKey \in DOMAIN rule.last_triggered
              /\ rule.last_triggered[CallKey] = call.at
              /\ EventsOf(call.alerts, rule.name) = {}
              /\ Cardinality({ h \in DOMAIN alert_history :
                                 /\ alert_history[h].rule_name = rule.name
                                 /\ alert_history[h].node_name = call.node_name }) = 1

(***************************************************************************)
(* C14. When an action of a firing rule raises or returns False, every     *)
(* action of the rule is still executed, the rule is marked triggered for  *)
(* the node key and the event is in the history and in the result.         *)
(***************************************************************************)
RECURSIVE ActionsOf(_, _)
ActionsOf(executed, rule_name) ==
    IF executed = <<>> THEN <<>>
    ELSE (IF Head(executed).rule = rule_name THEN << Head(executed).action >> ELSE <<>>)
         \o ActionsOf(Tail(executed), rule_name)

RuleNamed(rs, rule_name) == rs[CHOOSE k \in DOMAIN rs : rs[k].name = rule_name]

C14_FailedActionIsolated ==
    EvaluateDone
    => \A e \in DOMAIN call.alerts :
          LET name == call.alerts[e].rule_name
          IN  /\ ActionsOf(call.executed, name) = RuleNamed(call.rules_before, name).actions
              /\ CallKey \in DOMAIN RuleNamed(rules, name).last_triggered
              /\ RuleNamed(rules, name).last_triggered[CallKey] >= call.at
              /\ \E h \in DOMAIN alert_history :
                    /\ h > Len(call.history_before)
                    /\ alert_history[h] = call.alerts[e]

\* the first action of r1 raised, the second one ran, the event is there
C14_Witness ==
    /\ EvaluateDone
    /\ EventsOf(call.alerts, "r1") # {}
    /\ \E k \in DOMAIN call.executed :
          /\ call.executed[k].rule = "r1"
          /\ call.executed[k].action = "a1"
          /\ call.executed[k].outcome = "raises"
          /\ k < Len(call.executed)
          /\ call.executed[k + 1].action = "a2"

(***************************************************************************)
(* C15. A rule whose operator is none of > < >= <= == != never triggers:   *)
(* no event, no error, no last_triggered entry, nothing in the history.    *)
(***************************************************************************)
KnownOperators == {">", "<", ">=", "<=", "==", "!="}

C15_UnknownOperatorNeverFires ==
    \A i \in DOMAIN rules :
        rules[i].operator \notin KnownOperators
        => /\ DOMAIN rules[i].last_triggered = {}
           /\ EventsOf(alert_history, rules[i].name) = {}
           /\ EvaluateDone => (call.exc = "none" /\ EventsOf(call.alerts, rules[i].name) = {})

\* r1 has the operator '=>' and was evaluated against a value that r2 fires on
C15_Witness ==
    /\ EvaluateDone
    /\ call.rules_before[1].operator = "=>"
    /\ call.rules_before[1].enabled
    /\ call.metric_name = call.rules_before[1].metric
    /\ call.metric_value = 90
    /\ EventsOf(call.alerts, "r2") # {}
    /\ EventsOf(call.alerts, "r1") = {}

(***************************************************************************)
(* C16. collect never raises; it returns 1 when the response has status    *)
(* 200 and its body, stripped of surrounding whitespace, is 'Ok.', and 0   *)
(* for every other outcome.                                                *)
(***************************************************************************)
C16_HealthyIffOkBody ==
    output.done
    => /\ output.value.metric_name = <<"clickhouse_status">>
       /\ output.value.value \in {0, 1}
       /\ output.value.value = 1
          <=> ( /\ input.kind = "response"
                /\ input.status_code = 200
                /\ \E a \in { 0, 1, 2 }, c \in { 0, 1, 2 } :
                      /\ Len(input.text) = a + 2 + c
                      /\ SubSeq(input.text, a + 1, a + 2) = << "Ok", "." >>
                      /\ \A i \in (1..a) \cup ((a + 3)..Len(input.text)) :
                            input.text[i] \in {" ", "\n"} )

\* status 200 and the body 'Ok.' followed by a newline: value 1
C16_Witness ==
    /\ output.done
    /\ input.kind = "response"
    /\ input.status_code = 200
    /\ input.text = << "Ok", ".", "\n" >>
    /\ output.value.value = 1

\* the statement as written: 1 exactly for a 2xx response whose body is 'Ok.'
C16_HealthyIffExactBody ==
    output.done
    => ( output.value.value = 1
         <=> ( /\ input.kind = "response"
               /\ input.status_code \in 200..299
               /\ input.text = << "Ok", "." >> ) )

(***************************************************************************)
(* C17. In a collection cycle a failure while collecting, storing or       *)
(* evaluating alerts for one node or one collector does not keep the other *)
(* collectors and the other nodes and clusters from being processed: every *)
(* node of the provider is attempted exactly once, in order, and the cycle *)
(* runs to completion.                                                     *)
(***************************************************************************)
CycleDone == "op" \in DOMAIN call /\ call.op = "_collection_cycle"

AllNodes ==
    << [cluster |-> "c1", node |-> "n1"], [cluster |-> "c1", node |-> "n2"],
       [cluster |-> "c2", node |-> "n3"] >>

CollectorNames == { <<"clickhouse_status">>, <<"cpu_percent">> }

FaultHits(node, collector) ==
    /\ call.env.fault.stage # "none"
    /\ call.env.fault.node = node
    /\ call.env.fault.collector = collector

NamesOf(metrics) == { metrics[i].metric_name : i \in DOMAIN metrics }

C17_CycleAttemptsEveryNode ==
    CycleDone
    => /\ call.exc = "none"
       /\ Len(call.log) = Len(AllNodes)
       /\ \A i \in DOMAIN AllNodes :
             /\ call.log[i].cluster = AllNodes[i].cluster
             /\ call.log[i].node = AllNodes[i].node
             \* every collector without a fault of its own has delivered its metric
             /\ \A c \in CollectorNames :
                   ~(FaultHits(AllNodes[i].node, c) /\ call.env.fault.stage = "collect")
                   => c \in NamesOf(call.log[i].collected)
             \* a node without a fault is collected, stored and evaluated in full
             /\ (call.env.fault.stage = "none" \/ call.env.fault.node # AllNodes[i].node)
                => /\ call.log[i].error = "none"
                   /\ NamesOf(call.log[i].stored) = CollectorNames
                   /\ Range(call.log[i].evaluated) = CollectorNames

\* the store of the first node failed and the two nodes after it are complete
C17_Witness ==
    /\ CycleDone
    /\ call.env.fault.stage = "store"
    /\ call.env.fault.node = "n1"
    /\ call.log[1].error = "IOError"
    /\ Len(call.log) = 3
    /\ NamesOf(call.log[2].stored) = CollectorNames
    /\ NamesOf(call.log[3].stored) = CollectorNames

(***************************************************************************)
(* C18. In store_batch a write failure for one record does not abort the   *)
(* batch: every other record of the batch is still written.                *)
(***************************************************************************)
LineWritten(metric) ==
    LET path == BucketPath(metric.cluster_name, metric.node_name,
                           FromIsoFormat(metric.timestamp))
    IN  path \in DOMAIN files /\ Count(files[path], MetricToCsvLine(metric)) >= 1

C18_BatchSurvivesFailedRecord ==
    CycleDone
    => \A i \in DOMAIN call.log :
          \A k \in DOMAIN call.log[i].collected :
              LET metric == call.log[i].collected[k]
              IN  ~(FaultHits(metric.node_name, metric.metric_name)
                    /\ call.env.fault.stage = "store")
                  => LineWritten(metric)

(***************************************************************************)
(* C19. Each store_batch call of the snapshot layout leaves one file with  *)
(* the whole batch as one array, and no later call writes that file again: *)
(* whenever no write is in progress, every batch stored so far is on disk  *)
(* with the content it was written with.                                   *)
(***************************************************************************)
NoWriteInProgress == \A w \in Writers : threads[w].pc \in {"idle", "locking"}

C19_SnapshotFilesAreKept ==
    NoWriteInProgress
    => \A w \in Writers : \A k \in DOMAIN threads[w].returned :
          LET batch == threads[w].returned[k]
          IN  /\ batch.path \in DOMAIN files
              /\ files[batch.path] = << [json |-> "["] >> \o batch.json_data \o << [json |-> "]"] >>

(***************************************************************************)
(* C20. get_latest_metrics returns the records of the snapshot with the    *)
(* greatest stamp among those of the last 24 hours; when there is none,    *)
(* the records of the snapshot with the greatest stamp of the cluster;     *)
(* when the cluster has no snapshot, the empty list.                       *)
(***************************************************************************)
RECURSIVE DaysBefore(_, _)
DaysBefore(y, mo) ==
    IF mo > 1 THEN DaysInMonth(y, mo - 1) + DaysBefore(y, mo - 1)
    ELSE IF y > 2023 THEN DaysInMonth(y - 1, 12) + DaysBefore(y - 1, 12)
    ELSE 0

\* minutes since the start of 2023
MinuteOf(dt) == ((DaysBefore(dt.y, dt.mo) + dt.d - 1) * 24 + dt.h) * 60 + dt.mi

StampsOf(cluster) ==
    { t \in SnapshotInstants : SnapshotPath(cluster, t) \in DOMAIN files }

Newest(stamps) == CHOOSE t \in stamps : \A u \in stamps : MinuteOf(u) <= MinuteOf(t)

RecordsOf(cluster, t) == SubSeq(SnapshotOf(cluster, t), 2, 2)

C20_LatestInWindowElseNewest ==
    output.done
    => LET all == StampsOf("c1")
           recent == { t \in all : /\ MinuteOf(input) - 24 * 60 <= MinuteOf(t)
                                   /\ MinuteOf(t) <= MinuteOf(input) }
       IN  output.value = IF recent # {} THEN RecordsOf("c1", Newest(recent))
                          ELSE IF all # {} THEN RecordsOf("c1", Newest(all))
                          ELSE <<>>

\* no snapshot in the last 24 hours, two older ones: the newer of the two is returned
C20_Witness ==
    /\ output.done
    /\ input = DT(2024, 3, 1, 12, 0)
    /\ StampsOf("c1") = { DT(2023, 12, 29, 10, 0), DT(2023, 12, 31, 23, 59) }
    /\ output.value = RecordsOf("c1", DT(2023, 12, 31, 23, 59))

(***************************************************************************)
(* C21. A snapshot file that cannot be read or parsed contributes no       *)
(* records and raises nothing: get_node_history returns the records of the *)
(* node from every other file of the window, ascending by timestamp.       *)
(***************************************************************************)
WholeStamps(stamps) ==
    { t \in stamps : files[SnapshotPath("c1", t)] = FileText("whole", t) }

RECURSIVE EntriesAscending(_)
EntriesAscending(stamps) ==
    IF stamps = {} THEN <<>>
    ELSE LET t == CHOOSE u \in stamps : \A v \in stamps : MinuteOf(u) <= MinuteOf(v)
         IN  << HistoryEntry(HistoryRecords(t)[1]) >> \o EntriesAscending(stamps \ {t})

HistoryWindow ==
    LET all == { t \in HistoryStamps : SnapshotPath("c1", t) \in DOMAIN files }
        recent == { t \in all : /\ MinuteOf(input) - 24 * 60 <= MinuteOf(t)
                                /\ MinuteOf(t) <= MinuteOf(input) }
    IN  IF recent # {} THEN recent ELSE all

C21_UnreadableFileContributesNothing ==
    output.done
    => /\ output.value.exc = "none"
       /\ output.value.out = EntriesAscending(WholeStamps(HistoryWindow))

\* the same, over the files that json.load can decode
C21_CutFileContributesNothing ==
    (output.done /\ \A p \in DOMAIN files : Undecodable \notin Range(files[p]))
    => /\ output.value.exc = "none"
       /\ output.value.out = EntriesAscending(WholeStamps(HistoryWindow))

(***************************************************************************)
(* C22. A configuration error is fatal where the object is constructed: an *)
(* unknown provider type makes ClusterProviderFactory.create fail; an      *)
(* unknown action type or a missing required rule field makes the loading  *)
(* of the rules fail, and no rule is registered with fewer actions than    *)
(* its configuration lists.                                                *)
(***************************************************************************)
HasConfigError(data) ==
    \E i \in 1..Len(data) :
        \/ ~(RequiredFields \subseteq data[i].fields)
        \/ \E j \in 1..Len(data[i].actions) : data[i].actions[j] \notin ActionTypes

C22_ConfigErrorIsFatal ==
    output.done
    => /\ (input.kind = "provider" /\ input.provider_type \notin ProviderTypes)
              => output.value.exc # "none"
       /\ input.kind = "rules"
              => /\ HasConfigError(input.data) => output.value.exc # "none"
                 /\ \A i \in 1..Len(rules) : Len(rules[i].actions) = Len(input.data[i].actions)

\* what the loading does guarantee: an unknown provider type and a missing
\* required field raise
C22_MissingFieldIsFatal ==
    output.done
    => /\ (input.kind = "provider" /\ input.provider_type \notin ProviderTypes)
              => output.value.exc = "ValueError"
       /\ (input.kind = "rules" /\ \E i \in 1..Len(input.data) :
                                       ~(RequiredFields \subseteq input.data[i].fields))
              => output.value.exc = "KeyError"

(***************************************************************************)
(* C23. parse_machine_info_csv returns one Node per data line, in input    *)
(* order, skipping comment lines, empty lines and lines with an empty      *)
(* machine name, and leaves out every machine whose function is UTILITY.   *)
(***************************************************************************)
RowOf(text) == CHOOSE r \in MachineRows : r.text = text

\* the node of a data row, read from the row and not from its text
RowNode(r) ==
    [name |-> Strip(r.name), type |-> r.function,
     host |-> IF r.ip # <<>> THEN r.ip ELSE Strip(r.name),
     collection_method |-> "remote",
     attributes |-> [status |-> <<"H">>, environment |-> <<"Cluster1">>]]

RECURSIVE ExpectedNodes(_, _)
ExpectedNodes(lines, excluded) ==
    IF lines = <<>> THEN <<>>
    ELSE LET r == RowOf(Head(lines))
         IN  (IF r.kind = "data" /\ r.name # <<>> /\ r.function \notin excluded
              THEN << RowNode(r) >> ELSE <<>>)
             \o ExpectedNodes(Tail(lines), excluded)

C23_UtilityMachinesExcluded ==
    output.done
    => /\ output.value = ExpectedNodes(input, { <<"UTILITY">> })
       /\ \A i \in 1..Len(output.value) : output.value[i].type # <<"UTILITY">>

\* without the exclusion: one Node per data line with a machine name, in order
C23_OneNodePerNamedLine ==
    output.done => output.value = ExpectedNodes(input, {})

(***************************************************************************)
(* C24. With evaluate_metric running in two threads for the same rule and  *)
(* node key, the rule fires at most once per cooldown window: no two       *)
(* events of the history for one rule and key are less than                *)
(* cooldown_seconds apart.                                                 *)
(***************************************************************************)
SameRuleAndKey(a, b) ==
    /\ a.rule_name = b.rule_name
    /\ NodeKey(a.cluster_name, a.node_name) = NodeKey(b.cluster_name, b.node_name)

C24_OneEventPerWindowUnderThreads ==
    \A i \in DOMAIN alert_history : \A j \in (i + 1)..Len(alert_history) :
        SameRuleAndKey(alert_history[i], alert_history[j])
        => ~(alert_history[j].timestamp - alert_history[i].timestamp
                 < RuleNamed(rules, alert_history[i].rule_name).cooldown_seconds)

(***************************************************************************)
(* C25. An evaluate_metric call changes a rule's cooldown state only when  *)
(* the rule fires: a rule that does not fire (other metric, operator       *)
(* false, disabled, in cooldown) is left as it was and gets no event in    *)
(* the history; a rule that fires changes last_triggered at the call's     *)
(* node key only.                                                          *)
(***************************************************************************)
NewEvents == SubSeq(alert_history, Len(call.history_before) + 1, Len(alert_history))

C25_OnlyFiringChangesCooldown ==
    EvaluateDone
    => /\ SubSeq(alert_history, 1, Len(call.history_before)) = call.history_before
       /\ DOMAIN rules = DOMAIN call.rules_before
       /\ \A i \in DOMAIN call.rules_before :
             LET before == call.rules_before[i]
                 after == rules[i]
             IN  IF ~Due(before)
                 THEN /\ after = before
                      /\ EventsOf(NewEvents, before.name) = {}
                 ELSE /\ [after EXCEPT !.last_triggered = before.last_triggered] = before
                      /\ DOMAIN after.last_triggered = DOMAIN before.last_triggered \cup {CallKey}
                      /\ \A k \in DOMAIN before.last_triggered :
                            k # CallKey => after.last_triggered[k] = before.last_triggered[k]

\* r2 fired for another node earlier and fires now for this one at a later
\* time, while r1 does not fire
C25_Witness ==
    /\ EvaluateDone
    /\ \E i, j \in DOMAIN call.rules_before :
          /\ ~Due(call.rules_before[i])
          /\ Due(call.rules_before[j])
          /\ \E k \in DOMAIN call.rules_before[j].last_triggered :
                /\ k # CallKey
                /\ rules[j].last_triggered[k] < rules[j].last_triggered[CallKey]

(***************************************************************************)
(* C26. The cooldown is scoped per (cluster, node) pair: a rule that fired *)
(* for one pair is not suppressed for a different pair, so a rule that is  *)
(* enabled, matches the metric and the comparison and has not fired for    *)
(* the call's pair fires, whatever it did for other pairs.                 *)
(***************************************************************************)
FiredForPair(events, rule_name, cluster, node) ==
    \E e \in DOMAIN events :
        /\ events[e].rule_name = rule_name
        /\ events[e].cluster_name = cluster
        /\ events[e].node_name = node

C26_CooldownPerClusterNodePair ==
    EvaluateDone
    => \A i \in DOMAIN call.rules_before :
          LET rule == call.rules_before[i]
          IN  ( /\ rule.enabled
                /\ rule.metric = call.metric_name
                /\ Compares(rule.operator, call.metric_value, rule.threshold)
                /\ ~FiredForPair(call.history_before, rule.name, call.cluster_name, call.node_name) )
              => FiredForPair(call.alerts, rule.name, call.cluster_name, call.node_name)

(***************************************************************************)
(* C27. Cooldown state belongs to one rule: a firing of rule A for a node  *)
(* key leaves the last_triggered of every other rule B as it was, and does *)
(* not delay or suppress B for that key; B fires exactly when it is        *)
(* enabled, matches, and its own last event for the key is at least its    *)
(* cooldown old. Rules are created with the default last_triggered.        *)
(***************************************************************************)
FiredIn(events, rule_name) == \E e \in DOMAIN events : events[e].rule_name = rule_name

OwnCooldownOver(rule) ==
    \A h \in DOMAIN call.history_before :
        LET e == call.history_before[h]
        IN  (e.rule_name = rule.name /\ e.node_name = call.node_name)
            => call.at - e.timestamp >= rule.cooldown_seconds

C27_CooldownStateNotShared ==
    (EvaluateDone /\ "dicts_before" \in DOMAIN call)
    => \A b \in DOMAIN rules :
          /\ FiredIn(call.alerts, rules[b].name)
                <=> ( /\ Compares(rules[b].operator, call.metric_value, rules[b].threshold)
                      /\ OwnCooldownOver(rules[b]) )
          /\ ~FiredIn(call.alerts, rules[b].name)
                => dicts[rules[b].last_triggered] = call.dicts_before[rules[b].last_triggered]
          /\ \A a \in DOMAIN rules : a # b => rules[a].last_triggered # rules[b].last_triggered

\* r1 fires for n1 and r2, with a cooldown, does not; r2 then fires for n1 at the same instant
C27_Witness ==
    /\ EvaluateDone /\ "dicts_before" \in DOMAIN call
    /\ Len(rules) = 2
    /\ \E a, b \in DOMAIN rules :
          /\ a # b
          /\ rules[b].cooldown_seconds > 0
          /\ FiredIn(call.history_before, rules[a].name)
          /\ ~FiredIn(call.history_before, rules[b].name)
          /\ call.history_before[1].node_name = call.node_name
          /\ call.history_before[1].timestamp = call.at
          /\ FiredIn(call.alerts, rules[b].name)

(***************************************************************************)
(* C28. In a collection cycle the records of a node are stored before any  *)
(* of them is evaluated against the rules: a node whose records were       *)
(* evaluated had all of them stored, every event of the history has its    *)
(* value among the records handed to the store, and a node whose store     *)
(* failed has no record evaluated and no event in that cycle.              *)
(***************************************************************************)
StoredValue(e) ==
    \E w \in DOMAIN written :
        /\ written[w].metric_name = e.metric_name
        /\ written[w].node_name = e.node_name
        /\ written[w].cluster_name = e.cluster_name
        /\ FloatOf(written[w].value) = e.current_value

C28_StoredBeforeEvaluated ==
    CycleDone
    => /\ \A i \in DOMAIN call.log :
             /\ call.log[i].evaluated # <<>> => call.log[i].stored = call.log[i].collected
             /\ call.log[i].stored # call.log[i].collected
                   => /\ call.log[i].evaluated = <<>>
                      /\ \A h \in DOMAIN NewEvents : NewEvents[h].node_name # call.log[i].node
       /\ \A h \in DOMAIN alert_history : StoredValue(alert_history[h])

\* n1 and n3 are down, the store of n3 fails: an event for n1, none for n3
C28_Witness ==
    /\ CycleDone
    /\ call.env.down = {"n1", "n3"}
    /\ call.env.fault.stage = "store"
    /\ call.env.fault.node = "n3"
    /\ \E h \in DOMAIN alert_history :
          alert_history[h].node_name = "n1" /\ StoredValue(alert_history[h])
    /\ \A h \in DOMAIN NewEvents : NewEvents[h].node_name # "n3"
    /\ call.log[3].evaluated = <<>>

(***************************************************************************)
(* C29. The alert history holds the events returned by evaluate_metric     *)
(* since the last clear_alert_history, in the order they fired; only       *)
(* clear_alert_history shortens it; get_alert_history(limit) returns at    *)
(* most limit events, the most recent ones in firing order, for every      *)
(* limit >= 0.                                                             *)
(***************************************************************************)
CallIs(op) == "op" \in DOMAIN call /\ call.op = op

LastEvents(history, n) ==
    IF n >= Len(history) THEN history
    ELSE SubSeq(history, Len(history) - n + 1, Len(history))

HistoryGrowsByReturnedEvents ==
    /\ EvaluateDone => alert_history = call.history_before \o call.alerts
    /\ CallIs("clear_alert_history") => alert_history = <<>>
    /\ CallIs("get_alert_history") => alert_history = call.history_before

C29_HistoryAndItsLimit ==
    /\ HistoryGrowsByReturnedEvents
    /\ CallIs("get_alert_history")
          => /\ Len(call.result) <= call.limit
             /\ call.result = LastEvents(alert_history, call.limit)

\* the same for the limits that are not 0
C29_HistoryAndPositiveLimit ==
    /\ HistoryGrowsByReturnedEvents
    /\ (CallIs("get_alert_history") /\ call.limit > 0)
          => /\ Len(call.result) <= call.limit
             /\ call.result = LastEvents(alert_history, call.limit)

(***************************************************************************)
(* C30. start() on a stopped scheduler registers the interval job, makes   *)
(* is_running() true and runs one collection cycle at once; start() while  *)
(* running does nothing; stop() while running makes is_running() false and *)
(* stop() while stopped does nothing; trigger_collection() runs exactly    *)
(* one cycle whether the scheduler is running or not.                      *)
(***************************************************************************)
\* the number of records a fault-free cycle hands to the store
RecordsPerCycle == Len(AllNodes) * Cardinality(CollectorNames)

RanCycles(n) ==
    /\ scheduler.cycles = call.scheduler_before.cycles + n
    /\ Len(written) = Len(call.written_before) + n * RecordsPerCycle
    /\ Len(call.log) = n * Len(AllNodes)

C30_SchedulerLifecycle ==
    /\ CallIs("start")
          => IF call.scheduler_before.running
             THEN scheduler = call.scheduler_before /\ RanCycles(0)
             ELSE /\ scheduler.running
                  /\ scheduler.jobs = {"metric_collection"}
                  /\ RanCycles(1)
    /\ CallIs("stop")
          => /\ ~scheduler.running
             /\ RanCycles(0)
             /\ ~call.scheduler_before.running => scheduler = call.scheduler_before
             /\ scheduler.jobs = call.scheduler_before.jobs
    /\ CallIs("trigger_collection")
          => /\ RanCycles(1)
             /\ scheduler.running = call.scheduler_before.running
             /\ scheduler.jobs = call.scheduler_before.jobs

\* start() on a scheduler that is running, after a start, a stop and a second start
C30_Witness ==
    /\ CallIs("start")
    /\ call.scheduler_before.running
    /\ call.scheduler_before.cycles = 2
    /\ scheduler.cycles = 2
    /\ scheduler.jobs = {"metric_collection"}

====
